---- MODULE Spec2Model ----
(***************************************************************************)
(* A model of the code-generation core of GeNN: the substitution engine    *)
(* of codeGenUtils.cc (substitute, functionSubstitute, ensureFtype,        *)
(* checkUnreplacedVariables) and the parts of the generator pipeline that  *)
(* commit snippet code to an output stream.                                *)
(*                                                                         *)
(* C++ std::string values are TLA+ strings (sequences of characters).      *)
(* Positions are 0-based as in the source; the character at position p of  *)
(* s is SubSeq(s, p + 1, p + 1).  std::string::npos is modelled by -1.     *)
(***************************************************************************)
EXTENDS Integers, Sequences, FiniteSets, TLC

VARIABLES
    pc,            \* position of the call in progress
    code,          \* the code buffer being rewritten (std::string code / s)
    oldcode,       \* ensureFtype: the argument of the first call
    type,          \* ensureFtype: the target type, "float" or "double"
    i,             \* ensureFtype: scanner index
    state,         \* ensureFtype: scanner state 0..6
    pass,          \* ensureFtype: which application of the function is running
    first,         \* ensureFtype: the value returned by the first application
    trg,           \* substitute: the target string
    rep,           \* substitute: the replacement
    found,         \* substitute: position of the occurrence found, or npos
    iter,          \* substitute: iterations of the while loop made so far
    names,         \* value_substitutions: the parameter names
    values,        \* value_substitutions: the parameter values
    ext,           \* value_substitutions: the suffix of the placeholders
    nameIdx,       \* value_substitutions: index of the next name
    funcName,      \* functionSubstitute: the name of the function
    numParams,     \* functionSubstitute: its arity
    replaceFuncTemplate,  \* functionSubstitute: the replacement template
    params,        \* functionSubstitute: the arguments parsed so far
    currentParam,  \* functionSubstitute: the argument being parsed
    bracketDepth,  \* functionSubstitute: depth of nested brackets
    codeName,      \* checkUnreplacedVariables: the name of the code checked
    undefinedVars, \* checkUnreplacedVariables: its local string vars
    err,           \* checkUnreplacedVariables: the message of gennError, or ""
    role,          \* generator: which snippet code is being handled
    os,            \* generator: the code strings written to the stream
    mpiEnabled,    \* ModelSpec: the build defines MPI_ENABLE
    mpiHostID,     \* ModelSpec: the rank MPI_Comm_rank gives
    m_LocalNeuronGroups,    \* ModelSpec: named local neuron groups
    m_RemoteNeuronGroups,   \* ModelSpec: named remote neuron groups
    m_LocalSynapseGroups,   \* ModelSpec: named local synapse groups
    m_RemoteSynapseGroups,  \* ModelSpec: named remote synapse groups
    m_LocalCurrentSources,  \* ModelSpec: named local current sources
    m_RemoteCurrentSources, \* ModelSpec: named remote current sources
    thrown,        \* ModelSpec: what the last call threw, or ""
    lastCall,      \* ModelSpec: the last call and its arguments
    calls,         \* ModelSpec: the calls made so far
    m_NumDelaySlots,      \* NeuronGroup: delay slots of the source group
    m_VarQueueRequired,   \* NeuronGroup: which variables require queues
    m_OutSyn,      \* NeuronGroup: its outgoing synapse groups
    outIdx,        \* finalize: the next outgoing synapse group to look at
    sg,            \* strategy: the synapse group
    backend,       \* strategy: the device and block size of the backend
    stratIdx,      \* strategy: index of the strategy tried next
    strategy,      \* strategy: the strategy selected, or ""
    funcSubs,      \* strategy: the function substitution of genUpdate
    kernel,        \* strategy: the accumulation statements written
    neuronOs,      \* neuron update: the variable accesses written
    wCodeIn,       \* synaptic code: the weight update code as passed
    wCode,         \* synaptic code: the weight update code being rewritten
    poisson,       \* synaptic code: the source neuron model is Poisson
    remoteGroups,  \* kernels: remote neuron groups with delay and output to this host
    localGroups,   \* kernels: the local neuron groups
    m_KernelWorkGroupSizes,  \* kernels: the work-group size of each kernel
    spkQuePtr,     \* kernels: the queue pointer of each population
    advanced,      \* kernels: advances of each queue pointer in this timestep
    zeroed,        \* kernels: the spike count entries zeroed in this timestep
    bumped,        \* kernels: the spike count entries added to in this timestep
    pending,       \* kernels: work-items or work-groups of the kernel still to run
    timestep,      \* kernels: calls of updateNeurons completed
    numTrgNeurons,       \* sub-rows: target neurons of the synapse group
    numThreadsPerSpike,  \* sub-rows: threads that share one spike
    ranThreads,    \* sub-rows: the threads of the spike that have run
    visits,        \* sub-rows: how often each postsynaptic index was handed out
    blkStrategy,   \* block: the strategy that generated the kernel
    dd_ind,        \* block: the row of postsynaptic indices of each spike
    shLg,          \* block: the shared accumulator
    inSynMem,      \* block: dd_inSyn of the target group in global memory
    thr,           \* block: where each thread is, its loop index and register
    neuronGroup,   \* neuron body: the neuron group (ng)
    thCode,        \* neuron body: the threshold condition after substitution
    updateBody,    \* neuron body: the statements written to the stream
    logw,          \* neuron body: warnings logged
    ip,            \* neuron body: the statement of the body that runs next
    regs,          \* neuron body: the local variables of a running work-item
    events,        \* neuron body: what the work-item did, with lV at the time
    initGroup,     \* init: the neuron group being initialised
    glbSpkCnt,     \* init: the true spike count of each delay slot
    glbSpkCntEvnt, \* init: the spike event count of each delay slot
    glbSpk,        \* init: the true spike buffer, slot after slot
    glbSpkEvnt,    \* init: the spike event buffer, slot after slot
    sT,            \* init: the spike times, slot after slot
    initPending    \* init: the work-items of the group still to run

\* oldcode also keeps the buffer as it was passed to the call in progress
ftVars == <<type, i, state, pass, first>>
subVars == <<trg, rep, found, iter>>
vsVars == <<names, values, ext, nameIdx>>
fsVars == <<funcName, numParams, replaceFuncTemplate, params, currentParam, bracketDepth>>

cuVars == <<codeName, undefinedVars, err>>
genVars == <<role, os>>

\* the substitution engine and the generator together
engineVars == <<code, oldcode, ftVars, subVars, vsVars, fsVars, cuVars, genVars>>

msVars ==
    <<mpiEnabled, mpiHostID, m_LocalNeuronGroups, m_RemoteNeuronGroups,
      m_LocalSynapseGroups, m_RemoteSynapseGroups, m_LocalCurrentSources,
      m_RemoteCurrentSources, thrown, lastCall, calls>>

finVars == <<m_NumDelaySlots, m_VarQueueRequired, m_OutSyn, outIdx>>

stratVars == <<sg, backend, stratIdx, strategy, funcSubs, kernel>>

accVars == <<neuronOs, wCodeIn, wCode, poisson>>

krnVars ==
    <<remoteGroups, localGroups, m_KernelWorkGroupSizes, spkQuePtr, advanced,
      zeroed, bumped, pending, timestep>>

rowVars == <<numTrgNeurons, numThreadsPerSpike, ranThreads, visits>>

blkVars == <<blkStrategy, dd_ind, shLg, inSynMem, thr>>

nbVars == <<neuronGroup, thCode, updateBody, logw, ip, regs, events>>

iniVars == <<initGroup, glbSpkCnt, glbSpkCntEvnt, glbSpk, glbSpkEvnt, sT, initPending>>

\* the network model and the backend together
netVars == <<msVars, finVars, stratVars, accVars, krnVars, rowVars, blkVars,
      nbVars, iniVars>>

vars == <<pc, engineVars, netVars>>

-----------------------------------------------------------------------------
(* Bounds of the model.                                                    *)

\* longest enumerated input of ensureFtype
MaxLen == 4

-----------------------------------------------------------------------------
(* std::string helpers.                                                    *)

npos == -1

\* s[p], p 0-based; "" stands for the terminating null read at s.size()
at(s, p) == IF p \in 0..(Len(s) - 1) THEN SubSeq(s, p + 1, p + 1) ELSE ""

\* s.substr(p) / s.substr(p, n)
substr(s, p, n) == SubSeq(s, p + 1, IF p + n > Len(s) THEN Len(s) ELSE p + n)

\* s.find(t, from): the least position >= from where t occurs, or npos
findFrom(s, t, from) ==
    LET hits == {p \in from..(Len(s) - Len(t)) : substr(s, p, Len(t)) = t}
    IN  IF hits = {} THEN npos ELSE CHOOSE p \in hits : \A q \in hits : p <= q

find(s, t) == findFrom(s, t, 0)

\* s.replace(p, n, r)
replace(s, p, n, r) == SubSeq(s, 1, p) \o r \o SubSeq(s, p + n + 1, Len(s))

\* s.insert(p, 1, c)
insert(s, p, c) == SubSeq(s, 1, p) \o c \o SubSeq(s, p + 1, Len(s))

\* s.erase(p, 1)
erase(s, p) == SubSeq(s, 1, p) \o SubSeq(s, p + 2, Len(s))

\* all strings over alphabet A of length exactly n / at most n
RECURSIVE StringsOfLen(_, _)
StringsOfLen(A, n) ==
    IF n = 0 THEN {""} ELSE {s \o c : s \in StringsOfLen(A, n - 1), c \in A}

StringsUpTo(A, n) == UNION {StringsOfLen(A, k) : k \in 0..n}

-----------------------------------------------------------------------------
(* Each specification below follows the calls of one function; the         *)
(* variables of the other functions stay at their idle values.             *)

ftIdle == type = "" /\ i = 0 /\ state = 0 /\ pass = 0 /\ first = ""
subIdle == trg = "" /\ rep = "" /\ found = npos /\ iter = 0
vsIdle == names = <<>> /\ values = <<>> /\ ext = "" /\ nameIdx = 0

fsIdle ==
    /\ funcName = "" /\ numParams = 0 /\ replaceFuncTemplate = ""
    /\ params = <<>> /\ currentParam = "" /\ bracketDepth = 0

cuIdle == codeName = "" /\ undefinedVars = "" /\ err = ""
genIdle == role = "" /\ os = <<>>

engineIdle ==
    /\ code = "" /\ oldcode = ""
    /\ ftIdle /\ subIdle /\ vsIdle /\ fsIdle /\ cuIdle /\ genIdle

msIdle ==
    /\ mpiEnabled = FALSE /\ mpiHostID = 0
    /\ m_LocalNeuronGroups = <<>> /\ m_RemoteNeuronGroups = <<>>
    /\ m_LocalSynapseGroups = <<>> /\ m_RemoteSynapseGroups = <<>>
    /\ m_LocalCurrentSources = <<>> /\ m_RemoteCurrentSources = <<>>
    /\ thrown = "" /\ lastCall = <<>> /\ calls = 0

finIdle ==
    /\ m_NumDelaySlots = 1 /\ m_VarQueueRequired = <<>>
    /\ m_OutSyn = <<>> /\ outIdx = 0

stratIdle ==
    /\ sg = <<>> /\ backend = <<>> /\ stratIdx = 0 /\ strategy = ""
    /\ funcSubs = <<>> /\ kernel = <<>>

accIdle == neuronOs = <<>> /\ wCodeIn = "" /\ wCode = "" /\ poisson = FALSE

krnIdle ==
    /\ remoteGroups = <<>> /\ localGroups = <<>> /\ m_KernelWorkGroupSizes = <<>>
    /\ spkQuePtr = <<>> /\ advanced = <<>> /\ zeroed = {} /\ bumped = {}
    /\ pending = {} /\ timestep = 0

rowIdle ==
    /\ numTrgNeurons = 0 /\ numThreadsPerSpike = 0 /\ ranThreads = {}
    /\ visits = <<>>

blkIdle ==
    /\ blkStrategy = "" /\ dd_ind = <<>> /\ shLg = <<>> /\ inSynMem = <<>>
    /\ thr = <<>>

nbIdle ==
    /\ neuronGroup = <<>> /\ thCode = "" /\ updateBody = <<>> /\ logw = 0 /\ ip = 0
    /\ regs = <<>> /\ events = <<>>

iniIdle ==
    /\ initGroup = <<>> /\ glbSpkCnt = <<>> /\ glbSpkCntEvnt = <<>>
    /\ glbSpk = <<>> /\ glbSpkEvnt = <<>> /\ sT = <<>> /\ initPending = {}

netIdle == msIdle /\ finIdle /\ stratIdle /\ accIdle /\ krnIdle /\ rowIdle /\ blkIdle /\ nbIdle /\ iniIdle

msOthers == <<engineVars, finVars, stratVars, accVars, krnVars, rowVars, blkVars, nbVars, iniVars>>

msOthersIdle == engineIdle /\ finIdle /\ stratIdle /\ accIdle /\ krnIdle /\ rowIdle /\ blkIdle /\ nbIdle /\ iniIdle

finOthers == <<engineVars, msVars, stratVars, accVars, krnVars, rowVars, blkVars, nbVars, iniVars>>

finOthersIdle == engineIdle /\ msIdle /\ stratIdle /\ accIdle /\ krnIdle /\ rowIdle /\ blkIdle /\ nbIdle /\ iniIdle

stratOthers == <<engineVars, msVars, finVars, accVars, krnVars, rowVars, blkVars, nbVars, iniVars>>

stratOthersIdle == engineIdle /\ msIdle /\ finIdle /\ accIdle /\ krnIdle /\ rowIdle /\ blkIdle /\ nbIdle /\ iniIdle

accOthers == <<engineVars, msVars, finVars, stratVars, krnVars, rowVars, blkVars, nbVars, iniVars>>

accOthersIdle == engineIdle /\ msIdle /\ finIdle /\ stratIdle /\ krnIdle /\ rowIdle /\ blkIdle /\ nbIdle /\ iniIdle

krnOthers == <<engineVars, msVars, finVars, stratVars, accVars, rowVars, blkVars, nbVars, iniVars>>

krnOthersIdle == engineIdle /\ msIdle /\ finIdle /\ stratIdle /\ accIdle /\ rowIdle /\ blkIdle /\ nbIdle /\ iniIdle

rowOthers == <<engineVars, msVars, finVars, stratVars, accVars, krnVars, blkVars, nbVars, iniVars>>

rowOthersIdle == engineIdle /\ msIdle /\ finIdle /\ stratIdle /\ accIdle /\ krnIdle /\ blkIdle /\ nbIdle /\ iniIdle

blkOthers == <<engineVars, msVars, finVars, stratVars, accVars, krnVars, rowVars, nbVars, iniVars>>

blkOthersIdle == engineIdle /\ msIdle /\ finIdle /\ stratIdle /\ accIdle /\ krnIdle /\ rowIdle /\ nbIdle /\ iniIdle

nbOthers == <<engineVars, msVars, finVars, stratVars, accVars, krnVars, rowVars, blkVars, iniVars>>

nbOthersIdle == engineIdle /\ msIdle /\ finIdle /\ stratIdle /\ accIdle /\ krnIdle /\ rowIdle /\ blkIdle /\ iniIdle

iniOthers == <<engineVars, msVars, finVars, stratVars, accVars, krnVars, rowVars, blkVars, nbVars>>

iniOthersIdle == engineIdle /\ msIdle /\ finIdle /\ stratIdle /\ accIdle /\ krnIdle /\ rowIdle /\ blkIdle /\ nbIdle

\* ensureFtype runs
ftOthers == <<subVars, vsVars, fsVars, cuVars, genVars, netVars>>
ftOthersIdle == subIdle /\ vsIdle /\ fsIdle /\ cuIdle /\ genIdle /\ netIdle
\* substitute runs
subOthers == <<ftVars, vsVars, fsVars, cuVars, genVars, netVars>>
subOthersIdle == ftIdle /\ vsIdle /\ fsIdle /\ cuIdle /\ genIdle /\ netIdle
\* value_substitutions runs
vsOthers == <<ftVars, subVars, fsVars, cuVars, genVars, netVars>>
vsOthersIdle == ftIdle /\ subIdle /\ fsIdle /\ cuIdle /\ genIdle /\ netIdle
\* functionSubstitute runs: it uses i, found and iter as well
fsOthers == <<type, state, pass, first, trg, rep, vsVars, cuVars, genVars, netVars>>
fsOthersIdle ==
    /\ type = "" /\ state = 0 /\ pass = 0 /\ first = ""
    /\ trg = "" /\ rep = "" /\ vsIdle /\ cuIdle /\ genIdle /\ netIdle
\* checkUnreplacedVariables runs: it uses i as well
cuOthers == <<type, state, pass, first, subVars, vsVars, fsVars, genVars, netVars>>
cuOthersIdle ==
    /\ type = "" /\ state = 0 /\ pass = 0 /\ first = ""
    /\ subIdle /\ vsIdle /\ fsIdle /\ genIdle /\ netIdle
\* the generator runs: it uses type, codeName and err as well
genOthers == <<i, state, pass, first, undefinedVars, subVars, vsVars, fsVars, netVars>>
genOthersIdle ==
    /\ i = 0 /\ state = 0 /\ pass = 0 /\ first = "" /\ undefinedVars = ""
    /\ subIdle /\ vsIdle /\ fsIdle /\ netIdle

-----------------------------------------------------------------------------
(* codeGenUtils.cc: character classes and the maths function table.        *)

digits == {"0", "1", "2", "3", "4", "5", "6", "7", "8", "9"}

op == {"+", "-", "*", "/", "(", "<", ">", "=", " ", ",", ";", "\n", "\t"}

MathsFuncDouble == 1
MathsFuncSingle == 2

mathsFuncs ==
    <<
       <<"cos", "cosf">>, <<"sin", "sinf">>, <<"tan", "tanf">>, <<"acos", "acosf">>,
       <<"asin", "asinf">>, <<"atan", "atanf">>, <<"atan2", "atan2f">>, <<"cosh", "coshf">>,
       <<"sinh", "sinhf">>, <<"tanh", "tanhf">>, <<"acosh", "acoshf">>, <<"asinh", "asinhf">>,
       <<"atanh", "atanhf">>, <<"exp", "expf">>, <<"frexp", "frexpf">>, <<"ldexp", "ldexpf">>,
       <<"log", "logf">>, <<"log10", "log10f">>, <<"modf", "modff">>, <<"exp2", "exp2f">>,
       <<"expm1", "expm1f">>, <<"ilogb", "ilogbf">>, <<"log1p", "log1pf">>, <<"log2", "log2f">>,
       <<"logb", "logbf">>, <<"scalbn", "scalbnf">>, <<"scalbln", "scalblnf">>, <<"pow", "powf">>,
       <<"sqrt", "sqrtf">>, <<"cbrt", "cbrtf">>, <<"hypot", "hypotf">>, <<"erf", "erff">>,
       <<"erfc", "erfcf">>, <<"tgamma", "tgammaf">>, <<"lgamma", "lgammaf">>, <<"ceil", "ceilf">>,
       <<"floor", "floorf">>, <<"fmod", "fmodf">>, <<"trunc", "truncf">>, <<"round", "roundf">>,
       <<"lround", "lroundf">>, <<"llround", "llroundf">>, <<"rint", "rintf">>, <<"lrint", "lrintf">>,
       <<"nearbyint", "nearbyintf">>, <<"remainder", "remainderf">>, <<"remquo", "remquof">>, <<"copysign", "copysignf">>,
       <<"nan", "nanf">>, <<"nextafter", "nextafterf">>, <<"nexttoward", "nexttowardf">>, <<"fdim", "fdimf">>,
       <<"fmax", "fmaxf">>, <<"fmin", "fminf">>, <<"fabs", "fabsf">>, <<"fma", "fmaf">>
    >>

numMathsFuncs == Len(mathsFuncs)

-----------------------------------------------------------------------------
(* codeGenUtils.cc: substitute.                                            *)

\* cap on the iterations of substitute's while loop followed by the model
MaxIter == 12

\* one iteration of the while loop: replace the first occurrence (searched
\* from the start of the buffer) of t by r
substituteStep(s, t, r) == replace(s, find(s, t), Len(t), r)

\* substitute as a single replacement of the first occurrence would have it
substituteOnce(s, t, r, m) ==
    IF find(s, t) = npos THEN s ELSE substituteStep(s, t, r)

RECURSIVE substituteLoop(_, _, _, _)
substituteLoop(s, t, r, m) ==
    IF find(s, t) = npos \/ m = 0
    THEN s
    ELSE substituteLoop(substituteStep(s, t, r), t, r, m - 1)

\* the buffer left by substitute(s, trg, rep)
substitute(s, t, r) == substituteLoop(s, t, r, MaxIter)

\* the while loop is still running after MaxIter iterations
substituteRunsOn(s, t, r) == find(substitute(s, t, r), t) # npos

-----------------------------------------------------------------------------
(* codeGenUtils.cc: ensureMathFunctionFtype.                               *)

\* what iteration k of the loop searches for, and what it puts in its place
mathFuncTrg(t, k) ==
    mathsFuncs[k][IF t = "double" THEN MathsFuncSingle ELSE MathsFuncDouble] \o "("

mathFuncRep(t, k) ==
    mathsFuncs[k][IF t = "double" THEN MathsFuncDouble ELSE MathsFuncSingle] \o "("

\* the for loop from iteration k on.  An iteration whose target does not
\* occur in the buffer leaves it as it is, so the loop is followed from the
\* next iteration that finds its target.
RECURSIVE mathFuncLoop(_, _, _)
mathFuncLoop(c, t, k) ==
    LET hits == {j \in k..numMathsFuncs : find(c, mathFuncTrg(t, j)) # npos}
    IN  IF hits = {}
        THEN c
        ELSE LET j == CHOOSE h \in hits : \A g \in hits : h <= g
             IN  mathFuncLoop(substitute(c, mathFuncTrg(t, j), mathFuncRep(t, j)), t, j + 1)

ensureMathFunctionFtype(c, t) == mathFuncLoop(c, t, 1)

-----------------------------------------------------------------------------
(* codeGenUtils.cc: doFinal and the scanner of ensureFtype.                *)

\* doFinal(code, i, type, state): the buffer and the state it leaves
doFinal(c, k, t, st) ==
    LET c2 == IF at(c, k) = "f"
              THEN (IF t = "double" THEN erase(c, k) ELSE c)
              ELSE (IF t = "float" THEN insert(c, k, "f") ELSE c)
        st2 == IF k < Len(c2) - 1
               THEN (IF at(c2, k) \notin op THEN 0 ELSE 1)
               ELSE st
    IN  [code |-> c2, state |-> st2]

\* a scanner that drops every token that ends without rewriting
leadInNone(ch) == 0

\* the state after a character that ends a token without any rewriting
leadIn(ch) == IF ch \in op THEN 1 ELSE 0

\* case 0: looking for a valid lead-in
scanCase0(c, k, t, st) ==
    [code |-> c, state |-> IF at(c, k) \in op THEN 1 ELSE st]

\* case 1: looking for the start of a number
scanCase1(c, k, t, st) ==
    [code |-> c,
     state |-> IF at(c, k) \in digits THEN 2
               ELSE IF at(c, k) = "." THEN 3
               ELSE IF at(c, k) \notin op THEN 0
               ELSE st]

\* case 2 as a scanner that coerces integers as well would have it
scanCase2Coerce(c, k, t, st) ==
    IF at(c, k) = "." THEN [code |-> c, state |-> 3]
    ELSE IF at(c, k) = "e" \/ at(c, k) = "E" THEN [code |-> c, state |-> 4]
    ELSE IF at(c, k) \notin digits THEN doFinal(c, k, t, st)
    ELSE [code |-> c, state |-> st]

\* case 2: in a number, looking for more digits, '.', 'e', 'E' or its end
scanCase2(c, k, t, st) ==
    [code |-> c,
     state |-> IF at(c, k) = "." THEN 3
               ELSE IF at(c, k) = "e" \/ at(c, k) = "E" THEN 4
               ELSE IF at(c, k) \notin digits THEN leadIn(at(c, k))
               ELSE st]

\* case 3: had '.', looking for digits or 'e', 'E'
scanCase3(c, k, t, st) ==
    IF at(c, k) = "e" \/ at(c, k) = "E" THEN [code |-> c, state |-> 4]
    ELSE IF at(c, k) \notin digits THEN doFinal(c, k, t, st)
    ELSE [code |-> c, state |-> st]

\* case 4: had 'e', 'E': a digit, a sign, or the token is given up
scanCase4(c, k, t, st) ==
    [code |-> c,
     state |-> IF at(c, k) \in digits THEN 6
               ELSE IF at(c, k) # "+" /\ at(c, k) # "-" THEN leadIn(at(c, k))
               ELSE 5]

\* case 5: had the exponent's sign: a digit, or the token is given up
scanCase5(c, k, t, st) ==
    [code |-> c,
     state |-> IF at(c, k) \in digits THEN 6 ELSE leadIn(at(c, k))]

\* case 6: exponent digits: any other character triggers doFinal
scanCase6(c, k, t, st) ==
    IF at(c, k) \notin digits THEN doFinal(c, k, t, st)
    ELSE [code |-> c, state |-> st]

\* one pass through the switch of the while loop, at character c[k]
scanChar(c, k, t, st) ==
    CASE st = 0 -> scanCase0(c, k, t, st)
      [] st = 1 -> scanCase1(c, k, t, st)
      [] st = 2 -> scanCase2(c, k, t, st)
      [] st = 3 -> scanCase3(c, k, t, st)
      [] st = 4 -> scanCase4(c, k, t, st)
      [] st = 5 -> scanCase5(c, k, t, st)
      [] st = 6 -> scanCase6(c, k, t, st)

\* the statement after the while loop: a literal that ends the input
scanEnd(c, t, st) ==
    IF (st = 3 \/ st = 6) /\ t = "float" THEN c \o "f" ELSE c

RECURSIVE scanLoop(_, _, _, _)
scanLoop(c, k, t, st) ==
    IF k < Len(c)
    THEN LET r == scanChar(c, k, t, st) IN scanLoop(r.code, k + 1, t, r.state)
    ELSE scanEnd(c, t, st)

\* the value ensureFtype(oldcode, type) returns
ensureFtype(c, t) == ensureMathFunctionFtype(scanLoop(c, 0, t, 1), t)

-----------------------------------------------------------------------------
(* Calls of ensureFtype, one scanner step at a time.  A caller applies the *)
(* function to a snippet string and may apply it again to what it          *)
(* returned (the generator re-runs it on code that already went through    *)
(* it once, e.g. a variable initialiser substituted into other code).      *)

FtAlphabet == {"1", ".", "e", "-", "f", " ", "x"}

\* a floating literal between a lead-in and what follows it
FtLead == {"", " ", "x = ", "("}
FtLiteral == {"1.5", ".5", "1.", "2e3", "2e-3", "1.5e+3", "1.E5"}
FtSuffix == {"", "f"}
FtTail == {"", ";", " + 3;", ")"}

FtLiteralCase(lead, lit, suf, tail) == lead \o lit \o suf \o tail

FtLiteralCases ==
    {FtLiteralCase(lead, lit, suf, tail) :
        lead \in FtLead, lit \in FtLiteral, suf \in FtSuffix, tail \in FtTail}

\* the scenarios of the specification and code that calls maths functions
FtScenarios ==
    {"x = 1.5 + 2e-3 + 3;", "x = 1.5f + 2.0;", "3", "y = 3 * x;",
     "cos(x)", "cosf(x)", "fmod(x, 2)", "fmodf(x, 2)", "remainder(1.5, x)",
     "y = exp(-1.5 * x);", "y = a.b;", "f(a, ...)"}

FtInputs == StringsUpTo(FtAlphabet, MaxLen) \cup FtLiteralCases \cup FtScenarios

FtInit ==
    /\ oldcode \in FtInputs
    /\ type \in {"float", "double"}
    /\ code = oldcode
    /\ i = 0
    /\ state = 1
    /\ pass = 1
    /\ first = ""
    /\ pc = "scan"
    /\ ftOthersIdle

\* one iteration of the while loop of ensureFtype
FtScan ==
    /\ pc = "scan"
    /\ i < Len(code)
    /\ code' = scanChar(code, i, type, state).code
    /\ state' = scanChar(code, i, type, state).state
    /\ i' = i + 1
    /\ UNCHANGED <<pc, oldcode, type, pass, first, ftOthers>>

\* the loop is left: a literal that ends the input gets its suffix
FtEnd ==
    /\ pc = "scan"
    /\ i >= Len(code)
    /\ code' = scanEnd(code, type, state)
    /\ pc' = "math"
    /\ UNCHANGED <<oldcode, type, i, state, pass, first, ftOthers>>

\* ensureMathFunctionFtype, then return
FtMath ==
    /\ pc = "math"
    /\ code' = ensureMathFunctionFtype(code, type)
    /\ pc' = "done"
    /\ UNCHANGED <<oldcode, type, i, state, pass, first, ftOthers>>

\* the caller applies ensureFtype to the returned code, with the same type
FtAgain ==
    /\ pc = "done"
    /\ pass = 1
    /\ first' = code
    /\ pass' = 2
    /\ i' = 0
    /\ state' = 1
    /\ pc' = "scan"
    /\ UNCHANGED <<code, oldcode, type, ftOthers>>

FtNext == FtScan \/ FtEnd \/ FtMath \/ FtAgain

SpecFtype == FtInit /\ [][FtNext]_vars

\* the stepwise call returns what the operator ensureFtype computes
FtStepwiseAgrees ==
    pc = "done" =>
        /\ pass = 1 => code = ensureFtype(oldcode, type)
        /\ pass = 2 => code = ensureFtype(first, type)

-----------------------------------------------------------------------------
(* Properties of ensureFtype.                                              *)

\* a floating literal occurs somewhere in s: digits with a '.', or digits
\* with an exponent that has at least one digit
HasFloatLiteral(s) ==
    \E p \in 0..(Len(s) - 1) :
        \/ at(s, p) \in digits /\ at(s, p + 1) = "."
        \/ at(s, p) = "." /\ at(s, p + 1) \in digits
        \/ /\ at(s, p) \in digits
           /\ at(s, p + 1) \in {"e", "E"}
           /\ \/ at(s, p + 2) \in digits
              \/ at(s, p + 2) \in {"+", "-"} /\ at(s, p + 3) \in digits

\* the name of a maths function of the table occurs somewhere in s
HasMathsFunc(s) ==
    \E k \in 1..numMathsFuncs : find(s, mathsFuncs[k][MathsFuncDouble]) # npos

\* C1: ensureFtype is idempotent: applying it to what it returned, with the
\* same target type, returns the same code, also when a literal that
\* already carries its 'f' ends the code.
C1_Idempotent ==
    (pc = "done" /\ pass = 2) => code = first

\* C2: code free of floating literals and of maths function names is
\* returned unchanged, for both target types.
C2_NonInterference ==
    (pc = "done" /\ pass = 1 /\ ~HasFloatLiteral(oldcode) /\ ~HasMathsFunc(oldcode))
        => code = oldcode

\* C3: a floating literal that starts the code or follows a lead-in comes
\* out with exactly one trailing 'f' for float and with none for double,
\* whether or not it carried an 'f' and whatever follows it (another
\* character or the end of the input).
C3_LiteralCoerced ==
    (pc = "done" /\ pass = 1) =>
        \A lead \in FtLead, lit \in FtLiteral, suf \in FtSuffix, tail \in FtTail :
            oldcode = FtLiteralCase(lead, lit, suf, tail) =>
                code = FtLiteralCase(lead, lit, IF type = "float" THEN "f" ELSE "", tail)

\* C4: an integer-looking token is never changed: a scanner step taken
\* inside a run of digits that has seen no '.' and no exponent marker
\* (state 2), whether it reads an operator, any other character or the end
\* of the input, leaves the buffer as it is, for both target types.
C4_IntegerUntouched ==
    [][(pc = "scan" /\ state = 2) => code' = code]_vars

\* an integer token that starts the code has been scanned up to and
\* including the operator after it
C4_Witness ==
    /\ pc = "scan"
    /\ type = "float"
    /\ i = 2
    /\ at(oldcode, 0) \in digits
    /\ at(oldcode, 1) \in op
    /\ state = 1
    /\ code = oldcode

\* the scanner reads an operator or whitespace character after an exponent
\* marker (state 4; a sign there opens the exponent instead) or after an
\* exponent sign (state 5)
opAfterExponent ==
    /\ pc = "scan"
    /\ i < Len(code)
    /\ i' = i + 1
    /\ state \in {4, 5}
    /\ at(code, i) \in op
    /\ ~(state = 4 /\ at(code, i) \in {"+", "-"})

\* C23 as stated: an operator or whitespace character read in state 4 or 5
\* performs the suffix insert/strip of doFinal and moves to state 1.
C23_EmitToS1 ==
    [][opAfterExponent =>
          /\ code' = doFinal(code, i, type, state).code
          /\ state' = 1]_vars

\* C23: an operator or whitespace character read in state 4 (other than a
\* sign, which moves to state 5) or in state 5 moves to state 1 and leaves
\* the code as it is: no suffix is inserted or stripped.
C23_NoEmitToS1 ==
    [][opAfterExponent => (code' = code /\ state' = 1)]_vars

\* "1e " for float: the blank was read in state 4
C23_Witness ==
    /\ pc = "scan"
    /\ type = "float"
    /\ pass = 1
    /\ i = 3
    /\ state = 1
    /\ at(oldcode, 0) \in digits
    /\ at(oldcode, 1) = "e"
    /\ at(oldcode, 2) = " "
    /\ code = oldcode

-----------------------------------------------------------------------------
(* Calls of substitute(s, trg, rep), one iteration of its while loop at a  *)
(* time.  The buffer s is the variable code; oldcode keeps it as passed.   *)

SubAlphabet == {"a", "b"}

\* longest target and replacement enumerated
MaxPat == 2

SubInit ==
    /\ oldcode \in StringsUpTo(SubAlphabet, MaxLen)
    /\ trg \in StringsUpTo(SubAlphabet, MaxPat) \ {""}
    /\ rep \in StringsUpTo(SubAlphabet, MaxPat)
    /\ code = oldcode
    /\ found = npos
    /\ iter = 0
    /\ pc = "call"
    /\ subOthersIdle

\* size_t found = s.find(trg)
SubCall ==
    /\ pc = "call"
    /\ found' = find(code, trg)
    /\ pc' = "loop"
    /\ UNCHANGED <<code, oldcode, trg, rep, iter, subOthers>>

\* the loop condition holds: control enters the body.  A run whose buffer
\* grows is followed for at most MaxIter iterations; one whose buffer cannot
\* grow has finitely many states and is followed without limit
SubTest ==
    /\ pc = "loop"
    /\ found # npos
    /\ iter < MaxIter \/ Len(rep) <= Len(trg)
    /\ pc' = "body"
    /\ UNCHANGED <<code, oldcode, trg, rep, found, iter, subOthers>>

\* the body of the while loop; iter counts the iterations up to MaxIter
SubIterate ==
    /\ pc = "body"
    /\ code' = replace(code, found, Len(trg), rep)
    /\ found' = find(code', trg)
    /\ iter' = IF iter < MaxIter THEN iter + 1 ELSE iter
    /\ pc' = "loop"
    /\ UNCHANGED <<oldcode, trg, rep, subOthers>>

\* the loop condition fails: substitute returns
SubReturn ==
    /\ pc = "loop"
    /\ found = npos
    /\ pc' = "done"
    /\ UNCHANGED <<code, oldcode, trg, rep, found, iter, subOthers>>

SubNext == SubCall \/ SubTest \/ SubIterate \/ SubReturn

SpecSubst == SubInit /\ [][SubNext]_vars

\* s with each occurrence of t, taken left to right from position p on and
\* not overlapping an earlier one, replaced by r, the rest unchanged
RECURSIVE ReplacedFrom(_, _, _, _)
ReplacedFrom(s, t, r, p) ==
    LET q == findFrom(s, t, p)
    IN  IF q = npos
        THEN SubSeq(s, p + 1, Len(s))
        ELSE substr(s, p, q - p) \o r \o ReplacedFrom(s, t, r, q + Len(t))

\* C5: substitute(s, trg, rep) with a non-empty trg returns the original s
\* with each occurrence of trg (left to right, non-overlapping) replaced by
\* rep, every other character unchanged.
C5_GlobalReplacement ==
    pc = "done" => code = ReplacedFrom(oldcode, trg, rep, 0)

\* a call of substitute is scheduled until it returns: the loop has no
\* blocking step, so an enabled step is eventually taken.  The calls are
\* those whose buffer cannot grow, which the model follows without limit
SubLiveInit == SubInit /\ Len(rep) <= Len(trg)

SpecSubstLive == SubLiveInit /\ [][SubNext]_vars /\ WF_vars(SubNext)

\* a run followed up to the cap is one that never leaves the loop: the
\* replacement contains the target, so every iteration puts an occurrence
\* back and the search from position 0 finds it
SubCapDiverges ==
    (pc = "loop" /\ iter = MaxIter /\ found # npos) => find(rep, trg) # npos

\* C25: substitute(s, trg, rep) terminates for every s, every non-empty trg
\* and every rep, also when rep contains trg or forms a new occurrence of
\* trg with the text around it: every call eventually returns.
C25_Terminates == <>(pc = "done")

\* the loop is still running after MaxIter iterations
SubStillLooping == pc = "loop" /\ iter = MaxIter /\ substituteRunsOn(oldcode, trg, rep)

-----------------------------------------------------------------------------
(* writePreciseString: a floating point value written in scientific        *)
(* notation with max_digits10 digits after the decimal point.  The values  *)
(* of the model are the doubles with a natural number as value.            *)

max_digits10 == 17

digitChar == <<"0", "1", "2", "3", "4", "5", "6", "7", "8", "9">>

RECURSIVE natDigits(_)
natDigits(v) ==
    IF v < 10 THEN digitChar[v + 1]
    ELSE natDigits(v \div 10) \o digitChar[(v % 10) + 1]

RECURSIVE zeros(_)
zeros(m) == IF m <= 0 THEN "" ELSE "0" \o zeros(m - 1)

writePreciseString(v) ==
    LET d == natDigits(v)
        e == Len(d) - 1
    IN  SubSeq(d, 1, 1) \o "." \o SubSeq(d, 2, Len(d)) \o zeros(max_digits10 - e)
            \o "e+" \o (IF e < 10 THEN "0" ELSE "") \o natDigits(e)

-----------------------------------------------------------------------------
(* value_substitutions(code, names, values, ext): one substitute call per  *)
(* name, replacing $(name ext) by the value written at full precision.     *)

\* the placeholder of parameter nm with suffix x
placeholder(nm, x) == "$(" \o nm \o x \o ")"

\* most pieces a code buffer of the model is put together from
MaxAtoms == 3

VsAtoms == {"$(a)", "$(b)", "$(a_pre)", "$(", "a", "b", ")", " "}

VsNames == {<<"a">>, <<"a", "b">>, <<"ab", "a">>}

ParamValues == {7, 125}

VsInit ==
    /\ oldcode \in StringsUpTo(VsAtoms, MaxAtoms)
    /\ names \in VsNames
    /\ values \in [1..Len(names) -> ParamValues]
    /\ ext \in {"", "_pre"}
    /\ code = oldcode
    /\ nameIdx = 1
    /\ pc = "loop"
    /\ vsOthersIdle

\* the body of the for loop: substitute the next name by its value
VsSubstitute ==
    /\ pc = "loop"
    /\ nameIdx <= Len(names)
    /\ code' = substitute(code, placeholder(names[nameIdx], ext),
                          writePreciseString(values[nameIdx]))
    /\ nameIdx' = nameIdx + 1
    /\ UNCHANGED <<pc, oldcode, names, values, ext, vsOthers>>

\* all names done: value_substitutions returns
VsReturn ==
    /\ pc = "loop"
    /\ nameIdx > Len(names)
    /\ pc' = "done"
    /\ UNCHANGED <<code, oldcode, vsVars, vsOthers>>

VsNext == VsSubstitute \/ VsReturn

SpecValueSubst == VsInit /\ [][VsNext]_vars

\* C6: after value substitution of the names P with the values V (one
\* substitute call per name, with the given suffix) the buffer holds no
\* occurrence of the placeholder $(p suffix) of any p in P.
C6_NoParamPlaceholderLeft ==
    pc = "done" =>
        \A k \in 1..Len(names) : find(code, placeholder(names[k], ext)) = npos

\* value substitution has returned for two names whose placeholders both
\* occurred in the buffer, one of them twice
C6_Witness ==
    /\ pc = "done"
    /\ Len(names) = 2
    /\ find(oldcode, placeholder(names[1], ext)) # npos
    /\ find(oldcode, placeholder(names[2], ext)) # npos
    /\ \E k \in 1..2 :
           findFrom(oldcode, placeholder(names[k], ext),
                    find(oldcode, placeholder(names[k], ext)) + 1) # npos

-----------------------------------------------------------------------------
(* codeGenUtils.cc: functionSubstitute, followed a character at a time.    *)
(* The asserts are compiled in (no NDEBUG): a failed one ends the run in   *)
(* pc = "abort".                                                           *)

\* std::isspace in the "C" locale (the vertical tab, which has no escape
\* here, occurs in no input of the model)
isspace(ch) == ch \in {" ", "\t", "\n", "\f", "\r"}

\* "$(" + funcName + ","
funcStart(fn) == "$(" \o fn \o ","

\* "$(" + std::to_string(p) + ")", p counted from 0
positional(p) == "$(" \o natDigits(p) \o ")"

\* currentParam.empty(), as the asserts never take it
paramNeverEmpty(s) == FALSE

\* currentParam.empty()
paramEmpty(s) == s = ""

\* the for loop over p that fills the template: replaceFunc after the
\* iterations p, p + 1, ..., numParams - 1 (ps[p + 1] is params[p])
RECURSIVE fillFrom(_, _, _)
fillFrom(rf, ps, p) ==
    IF p >= Len(ps)
    THEN rf
    ELSE fillFrom(substitute(rf, positional(p), ps[p + 1]), ps, p + 1)

\* one of those substitute calls does not return
RECURSIVE fillRunsOn(_, _, _)
fillRunsOn(rf, ps, p) ==
    /\ p < Len(ps)
    /\ \/ substituteRunsOn(rf, positional(p), ps[p + 1])
       \/ fillRunsOn(substitute(rf, positional(p), ps[p + 1]), ps, p + 1)

\* most iterations of the while loop over the calls followed by the model
MaxCalls == 3

\* longest argument text enumerated after "$(f,"
MaxBody == 4

FsBodyAlphabet == {"a", ",", "(", ")", " ", "$(1)"}

FsPre == {"x"}

FsPost == {"", ";$(f,a)"}

\* arity and template of the function f
FsFuncs == {<<0, "Z">>, <<1, "[$(0)]">>, <<2, "<$(1)|$(0)>">>}

FsCodes ==
    {pre \o "$(f," \o body \o post :
        pre \in FsPre, body \in StringsUpTo(FsBodyAlphabet, MaxBody), post \in FsPost}
      \cup {"$(f)", "x$(f);$(f)", "$(fa)"}

\* a call with an inner call of another function among its arguments
FsScenario ==
    [code |-> "y = $(scale, $(mul, a, b), 0.5);", funcName |-> "scale",
     numParams |-> 2, template |-> "(($(0)) * ($(1)))"]

FsInputs ==
    {[code |-> c, funcName |-> "f", numParams |-> f[1], template |-> f[2]] :
        c \in FsCodes, f \in FsFuncs} \cup {FsScenario}

FsInit ==
    /\ \E in \in FsInputs :
          /\ oldcode = in.code
          /\ funcName = in.funcName
          /\ numParams = in.numParams
          /\ replaceFuncTemplate = in.template
    /\ code = oldcode
    /\ params = <<>> /\ currentParam = "" /\ bracketDepth = 0
    /\ found = npos /\ i = 0 /\ iter = 0
    /\ pc = "call"
    /\ fsOthersIdle

\* numParams == 0: substitute(code, "$(" + funcName + ")", replaceFuncTemplate)
FsCallZero ==
    /\ pc = "call"
    /\ numParams = 0
    /\ ~substituteRunsOn(code, "$(" \o funcName \o ")", replaceFuncTemplate)
    /\ code' = substitute(code, "$(" \o funcName \o ")", replaceFuncTemplate)
    /\ pc' = "done"
    /\ UNCHANGED <<oldcode, i, found, iter, fsVars, fsOthers>>

\* numParams > 0: the locals are set up and the first call is looked for
FsCallStart ==
    /\ pc = "call"
    /\ numParams > 0
    /\ params' = <<>>
    /\ currentParam' = ""
    /\ found' = find(code, funcStart(funcName))
    /\ pc' = "while"
    /\ UNCHANGED <<code, oldcode, i, iter, funcName, numParams,
                   replaceFuncTemplate, bracketDepth, fsOthers>>

\* while (found != npos): the body is entered; the model follows at most
\* MaxCalls iterations
FsWhile ==
    /\ pc = "while"
    /\ found # npos
    /\ iter < MaxCalls
    /\ bracketDepth' = 0
    /\ i' = found + Len(funcStart(funcName))
    /\ iter' = iter + 1
    /\ pc' = "for"
    /\ UNCHANGED <<code, oldcode, found, funcName, numParams,
                   replaceFuncTemplate, params, currentParam, fsOthers>>

\* no call is left: functionSubstitute returns
FsReturn ==
    /\ pc = "while"
    /\ found = npos
    /\ pc' = "done"
    /\ UNCHANGED <<code, oldcode, i, found, iter, fsVars, fsOthers>>

\* assert(!currentParam.empty()) fails, at a comma at depth 0 or at the
\* bracket that closes the call
FsAssertParam ==
    /\ pc = "for"
    /\ i < Len(code)
    /\ bracketDepth = 0
    /\ at(code, i) \in {",", ")"}
    /\ paramEmpty(currentParam)
    /\ pc' = "abort"
    /\ UNCHANGED <<code, oldcode, i, found, iter, fsVars, fsOthers>>

\* a comma at depth 0 ends an argument
FsComma ==
    /\ pc = "for"
    /\ i < Len(code)
    /\ at(code, i) = ","
    /\ bracketDepth = 0
    /\ ~paramEmpty(currentParam)
    /\ params' = Append(params, currentParam)
    /\ currentParam' = ""
    /\ i' = i + 1
    /\ UNCHANGED <<pc, code, oldcode, found, iter, funcName, numParams,
                   replaceFuncTemplate, bracketDepth, fsOthers>>

\* an open bracket: one level deeper, and part of the argument
FsOpen ==
    /\ pc = "for"
    /\ i < Len(code)
    /\ at(code, i) = "("
    /\ bracketDepth' = bracketDepth + 1
    /\ currentParam' = currentParam \o "("
    /\ i' = i + 1
    /\ UNCHANGED <<pc, code, oldcode, found, iter, funcName, numParams,
                   replaceFuncTemplate, params, fsOthers>>

\* a close bracket deeper than the call: one level up, and part of the
\* argument
FsCloseInner ==
    /\ pc = "for"
    /\ i < Len(code)
    /\ at(code, i) = ")"
    /\ bracketDepth > 0
    /\ bracketDepth' = bracketDepth - 1
    /\ currentParam' = currentParam \o ")"
    /\ i' = i + 1
    /\ UNCHANGED <<pc, code, oldcode, found, iter, funcName, numParams,
                   replaceFuncTemplate, params, fsOthers>>

\* the bracket that closes the call, the last argument pushed:
\* assert(params.size() == numParams) fails
FsAssertArity ==
    /\ pc = "for"
    /\ i < Len(code)
    /\ at(code, i) = ")"
    /\ bracketDepth = 0
    /\ ~paramEmpty(currentParam)
    /\ Len(params) + 1 # numParams
    /\ params' = Append(params, currentParam)
    /\ currentParam' = ""
    /\ pc' = "abort"
    /\ UNCHANGED <<code, oldcode, i, found, iter, funcName, numParams,
                   replaceFuncTemplate, bracketDepth, fsOthers>>

\* the bracket that closes the call: the template is filled, the call is
\* replaced by it, the for loop is left and the next call is looked for
FsCloseCall ==
    /\ pc = "for"
    /\ i < Len(code)
    /\ at(code, i) = ")"
    /\ bracketDepth = 0
    /\ ~paramEmpty(currentParam)
    /\ Len(params) + 1 = numParams
    /\ ~fillRunsOn(replaceFuncTemplate, Append(params, currentParam), 0)
    /\ code' = replace(code, found, i - found + 1,
                       fillFrom(replaceFuncTemplate, Append(params, currentParam), 0))
    /\ params' = <<>>
    /\ currentParam' = ""
    /\ found' = find(code', funcStart(funcName))
    /\ pc' = "while"
    /\ UNCHANGED <<oldcode, i, iter, funcName, numParams,
                   replaceFuncTemplate, bracketDepth, fsOthers>>

\* the same, but a substitute call that fills the template never returns
FsCloseHang ==
    /\ pc = "for"
    /\ i < Len(code)
    /\ at(code, i) = ")"
    /\ bracketDepth = 0
    /\ ~paramEmpty(currentParam)
    /\ Len(params) + 1 = numParams
    /\ fillRunsOn(replaceFuncTemplate, Append(params, currentParam), 0)
    /\ params' = Append(params, currentParam)
    /\ currentParam' = ""
    /\ pc' = "hang"
    /\ UNCHANGED <<code, oldcode, i, found, iter, funcName, numParams,
                   replaceFuncTemplate, bracketDepth, fsOthers>>

\* any other character (a comma inside brackets too): part of the argument
\* unless it is a space at depth 0
FsChar ==
    /\ pc = "for"
    /\ i < Len(code)
    /\ at(code, i) \notin {"(", ")"}
    /\ ~(at(code, i) = "," /\ bracketDepth = 0)
    /\ currentParam' =
          IF bracketDepth > 0 \/ ~isspace(at(code, i))
          THEN currentParam \o at(code, i)
          ELSE currentParam
    /\ i' = i + 1
    /\ UNCHANGED <<pc, code, oldcode, found, iter, funcName, numParams,
                   replaceFuncTemplate, params, bracketDepth, fsOthers>>

\* the buffer ends before the call is closed: the for loop is left with
\* params and currentParam as they are, and the same call is found again
FsForEnd ==
    /\ pc = "for"
    /\ i >= Len(code)
    /\ found' = find(code, funcStart(funcName))
    /\ pc' = "while"
    /\ UNCHANGED <<code, oldcode, i, iter, fsVars, fsOthers>>

FsNext ==
    \/ FsCallZero \/ FsCallStart \/ FsWhile \/ FsReturn
    \/ FsAssertParam \/ FsComma \/ FsOpen \/ FsCloseInner
    \/ FsAssertArity \/ FsCloseCall \/ FsCloseHang \/ FsChar \/ FsForEnd

SpecFunc == FsInit /\ [][FsNext]_vars

\* --- what a call is, read off the text ---

\* brackets opened and not closed in c from position a up to, not
\* including, position q
depthAt(c, a, q) ==
    Cardinality({r \in a..(q - 1) : at(c, r) = "("})
      - Cardinality({r \in a..(q - 1) : at(c, r) = ")"})

\* the bracket that closes the call whose arguments start at a, or npos
closingOf(c, a) ==
    LET cl == {q \in a..(Len(c) - 1) : at(c, q) = ")" /\ depthAt(c, a, q) = 0}
    IN  IF cl = {} THEN npos ELSE CHOOSE q \in cl : \A r \in cl : q <= r

\* where the arguments of that call end: the commas at depth 0 and the
\* closing bracket, in increasing order
RECURSIVE ascending(_)
ascending(S) ==
    IF S = {} THEN <<>>
    ELSE LET m == CHOOSE q \in S : \A r \in S : q <= r
         IN  <<m>> \o ascending(S \ {m})

argEnds(c, a) ==
    LET e == closingOf(c, a)
        lim == IF e = npos THEN Len(c) ELSE e
    IN  ascending({q \in a..(lim - 1) : at(c, q) = "," /\ depthAt(c, a, q) = 0}
                    \cup (IF e = npos THEN {} ELSE {e}))

\* the text from lo to hi without its white space at depth 0
RECURSIVE stripped(_, _, _, _)
stripped(c, a, lo, hi) ==
    IF lo > hi THEN ""
    ELSE (IF isspace(at(c, lo)) /\ depthAt(c, a, lo) = 0 THEN "" ELSE at(c, lo))
            \o stripped(c, a, lo + 1, hi)

\* the k-th argument (k from 1) of the call whose arguments start at a
argOf(c, a, k) ==
    LET ends == argEnds(c, a)
    IN  stripped(c, a, IF k = 1 THEN a ELSE ends[k - 1] + 1, ends[k] - 1)

argsOf(c, a) == [k \in 1..Len(argEnds(c, a)) |-> argOf(c, a, k)]

\* where the call is seen to be ill-formed: the first argument end with an
\* empty argument before it, or else the closing bracket if the number of
\* arguments is not n; npos for a call that is not ill-formed
defectOf(c, a, n) ==
    LET ends == argEnds(c, a)
        empties == {k \in 1..Len(ends) : argOf(c, a, k) = ""}
    IN  IF empties # {}
        THEN ends[CHOOSE k \in empties : \A j \in empties : k <= j]
        ELSE IF closingOf(c, a) # npos /\ Len(ends) # n
             THEN closingOf(c, a)
             ELSE npos

\* the template t with each $(k), k < Len(as), replaced by argument as[k+1],
\* in one pass over t from position q on
RECURSIVE filled(_, _, _)
filled(t, as, q) ==
    IF q >= Len(t) THEN ""
    ELSE LET ks == {k \in 0..(Len(as) - 1) :
                       substr(t, q, Len(positional(k))) = positional(k)}
         IN  IF ks = {}
             THEN at(t, q) \o filled(t, as, q + 1)
             ELSE LET k == CHOOSE j \in ks : TRUE
                  IN  as[k + 1] \o filled(t, as, q + Len(positional(k)))

\* c with its first m calls of fn, each taken in the text as rewritten so
\* far, replaced by the filled template
RECURSIVE rewritten(_, _, _, _, _)
rewritten(c, fn, n, t, m) ==
    LET f == find(c, funcStart(fn))
        a == f + Len(funcStart(fn))
        e == closingOf(c, a)
    IN  IF f = npos \/ m = 0 THEN c
        ELSE IF e = npos \/ defectOf(c, a, n) # npos THEN c
        ELSE rewritten(substr(c, 0, f) \o filled(t, argsOf(c, a), 0)
                          \o SubSeq(c, e + 2, Len(c)), fn, n, t, m - 1)

\* C7: a run of functionSubstitute with arity >= 1 that returns leaves the
\* code with every call $(func, a0, a1, ...) replaced by the template in
\* which each $(k) stands for argument k, the arguments being the text
\* between the commas at depth 0 with white space at depth 0 removed and
\* bracketed text kept as it is; with arity 0 every $(func) is replaced by
\* the template.
C7_CallsRewritten ==
    pc = "done" =>
        code = IF numParams = 0
               THEN ReplacedFrom(oldcode, "$(" \o funcName \o ")", replaceFuncTemplate, 0)
               ELSE rewritten(oldcode, funcName, numParams, replaceFuncTemplate, MaxCalls)

\* the same for the calls none of whose arguments holds a positional
\* placeholder of the template
C7_PlainArguments ==
    (pc = "done" /\ \A k \in 0..(numParams - 1) : find(oldcode, positional(k)) = npos) =>
        code = IF numParams = 0
               THEN ReplacedFrom(oldcode, "$(" \o funcName \o ")", replaceFuncTemplate, 0)
               ELSE rewritten(oldcode, funcName, numParams, replaceFuncTemplate, MaxCalls)

\* the call with an inner call is rewritten, the inner call left as it is
C7_Scenario ==
    (pc = "done" /\ oldcode = FsScenario.code) =>
        code = "y = (($(mul, a, b)) * (0.5));"

C7_ScenarioDone == pc = "done" /\ oldcode = FsScenario.code

\* C8: with arity >= 1, a matched call whose number of arguments at depth 0
\* differs from the arity, or one of whose arguments is empty once its
\* white space is removed, makes functionSubstitute fail on an assertion:
\* the scan of such a call never rewrites the code, never gets past the
\* place of the defect, and fails there.
C8_IllFormedCallFails ==
    [][(pc = "for"
          /\ defectOf(code, found + Len(funcStart(funcName)), numParams) # npos)
       => /\ code' = code
          /\ pc' \in {"for", "abort"}
          /\ i' <= defectOf(code, found + Len(funcStart(funcName)), numParams)
          /\ (i = defectOf(code, found + Len(funcStart(funcName)), numParams)
                => pc' = "abort")]_vars

\* an assertion has failed at the closing bracket of a call with too few or
\* too many arguments
C8_Witness ==
    /\ pc = "abort"
    /\ code = oldcode
    /\ i = closingOf(code, found + Len(funcStart(funcName)))
    /\ i = defectOf(code, found + Len(funcStart(funcName)), numParams)
    /\ Len(params) # numParams

\* a call of functionSubstitute is scheduled until it returns or fails an
\* assert: no step of it blocks
FsLiveCodes ==
    {"x$(f,a", "x$(f,(", "x$(f,a);$(f,a)", "x$(f,(a),a)", "x$(f,,a)",
     "x$(f,a,a,a)", "x$(f,a,$(1))", "x$(f, a);$(f,a", "$(f)"}

\* the functions of FsFuncs and one whose template calls the function again
FsLiveFuncs == FsFuncs \cup {<<1, "$(f,$(0))">>}

FsLiveInit ==
    /\ \E c \in FsLiveCodes, f \in FsLiveFuncs :
          /\ oldcode = c
          /\ funcName = "f"
          /\ numParams = f[1]
          /\ replaceFuncTemplate = f[2]
    /\ code = oldcode
    /\ params = <<>> /\ currentParam = "" /\ bracketDepth = 0
    /\ found = npos /\ i = 0 /\ iter = 0
    /\ pc = "call"
    /\ fsOthersIdle

\* some step of the call can be taken: ENABLED <<FsNext>>_vars written out
FsRunning ==
    \/ pc \in {"call", "for"}
    \/ pc = "while" /\ (found = npos \/ iter < MaxCalls)

\* weak fairness of FsNext, WF_vars(FsNext), with its ENABLED written out
FsFair == []<>(~FsRunning) \/ []<><<FsNext>>_vars

SpecFuncLive == FsLiveInit /\ [][FsNext]_vars /\ FsFair

\* a scan that runs to the end of the code without closing the call leaves
\* the code as it is and finds the same call again
FsForEndRepeats ==
    [][(pc = "for" /\ i >= Len(code)) => (code' = code /\ found' = found /\ found' # npos)]_vars

\* a run followed up to the cap is one whose last scan ran to the end of
\* the code without closing the call, or one whose template puts a call of
\* the function back
FsCapDiverges ==
    (pc = "while" /\ iter = MaxCalls /\ found # npos) =>
        \/ closingOf(code, found + Len(funcStart(funcName))) = npos
        \/ find(replaceFuncTemplate, funcStart(funcName)) # npos

\* the scan of a call starts with an empty argument and an empty argument
\* list
FsNoLeak ==
    (pc = "for" /\ i = found + Len(funcStart(funcName))) =>
        (currentParam = "" /\ params = <<>>)

\* every call returns or fails an assert
FsReturns == <>(pc \in {"done", "abort"})

\* C26: functionSubstitute terminates for every code, function name, arity
\* >= 1 and template, also when a call has no closing bracket at depth 0
\* before the end of the code: every call eventually returns (or fails an
\* assert), and the scan of each matched call starts from an empty current
\* argument and an empty argument list.
C26_Terminates ==
    /\ FsReturns
    /\ []FsNoLeak


-----------------------------------------------------------------------------
(* codeGenUtils.cc: checkUnreplacedVariables, in the build where           *)
(* REGEX_OPERATIONAL is defined (every compiler but GCC before 4.9.1,      *)
(* for which the function is empty).                                       *)

\* the characters \w matches
wordChars ==
    {"a", "b", "c", "d", "e", "f", "g", "h", "i", "j", "k", "l", "m",
     "n", "o", "p", "q", "r", "s", "t", "u", "v", "w", "x", "y", "z",
     "A", "B", "C", "D", "E", "F", "G", "H", "I", "J", "K", "L", "M",
     "N", "O", "P", "Q", "R", "S", "T", "U", "V", "W", "X", "Y", "Z",
     "0", "1", "2", "3", "4", "5", "6", "7", "8", "9", "_"}

\* how many characters from position p on are matched by [\w]+
RECURSIVE wordRun(_, _)
wordRun(c, p) == IF at(c, p) \in wordChars THEN 1 + wordRun(c, p + 1) ELSE 0

\* the regex with its + left out
matchEndOneChar(c, p) ==
    IF substr(c, p, 2) = "$(" /\ at(c, p + 2) \in wordChars /\ at(c, p + 3) = ")"
    THEN p + 4
    ELSE npos

\* the position after the match of \$\([\w]+\) that starts at p, or npos
matchEnd(c, p) ==
    LET run == wordRun(c, p + 2)
    IN  IF substr(c, p, 2) = "$(" /\ run >= 1 /\ at(c, p + 2 + run) = ")"
        THEN p + 2 + run + 1
        ELSE npos

\* where the iterator finds its next match when it searches from position
\* from, or npos
regexSearch(c, from) ==
    LET hits == {p \in from..(Len(c) - 1) : matchEnd(c, p) # npos}
    IN  IF hits = {} THEN npos ELSE CHOOSE p \in hits : \A q \in hits : p <= q

\* it->str().substr(2, it->str().size() - 3) for the match at p
matchName(c, p) == substr(substr(c, p, matchEnd(c, p) - p), 2, matchEnd(c, p) - p - 3)

\* the string vars at the end of the for loop that starts searching at from
RECURSIVE varsFrom(_, _)
varsFrom(c, from) ==
    LET p == regexSearch(c, from)
    IN  IF p = npos THEN ""
        ELSE matchName(c, p) \o ", " \o varsFrom(c, matchEnd(c, p))

\* the argument of gennError for a non-empty vars v
errorMessage(v, cn) ==
    LET l == substr(v, 0, Len(v) - 2)
    IN  "The " \o (IF find(l, ",") # npos
                   THEN "variables " \o l \o " were "
                   ELSE "variable " \o l \o " was ")
               \o "undefined in code " \o cn \o "."

\* the function as it is compiled without REGEX_OPERATIONAL
checkUnreplacedStub(c, cn) == ""

\* the message checkUnreplacedVariables(c, cn) ends with, "" if it returns
checkUnreplacedVariables(c, cn) ==
    IF Len(varsFrom(c, 0)) > 0 THEN errorMessage(varsFrom(c, 0), cn) ELSE ""

CuAtoms == {"$(", "a1", ")", " ", "$(b)", "$(_x)", "-"}

CuCodeNames == {"n : neuron simCode", "n : resetCode"}

CuInit ==
    /\ oldcode \in StringsUpTo(CuAtoms, MaxAtoms)
    /\ codeName \in CuCodeNames
    /\ code = oldcode
    /\ undefinedVars = ""
    /\ err = ""
    /\ i = 0
    /\ pc = "iterate"
    /\ cuOthersIdle

\* the body of the for loop: the name of the next match is added to vars
CuMatch ==
    /\ pc = "iterate"
    /\ regexSearch(code, i) # npos
    /\ undefinedVars' = undefinedVars \o matchName(code, regexSearch(code, i)) \o ", "
    /\ i' = matchEnd(code, regexSearch(code, i))
    /\ UNCHANGED <<pc, code, oldcode, codeName, err, cuOthers>>

\* no further match: the for loop ends
CuEnd ==
    /\ pc = "iterate"
    /\ regexSearch(code, i) = npos
    /\ pc' = "report"
    /\ UNCHANGED <<code, oldcode, i, cuVars, cuOthers>>

\* vars.size() > 0: gennError
CuError ==
    /\ pc = "report"
    /\ Len(undefinedVars) > 0
    /\ err' = errorMessage(undefinedVars, codeName)
    /\ pc' = "error"
    /\ UNCHANGED <<code, oldcode, i, codeName, undefinedVars, cuOthers>>

\* vars is empty: the function returns
CuPass ==
    /\ pc = "report"
    /\ Len(undefinedVars) = 0
    /\ pc' = "done"
    /\ UNCHANGED <<code, oldcode, i, cuVars, cuOthers>>

CuNext == CuMatch \/ CuEnd \/ CuError \/ CuPass

SpecCheck == CuInit /\ [][CuNext]_vars

\* the function followed match by match ends as the operator says
CuStepwiseAgrees ==
    (pc \in {"error", "done"}) => err = checkUnreplacedVariables(code, codeName)

\* --- what a placeholder is, read off the text ---

\* c holds $( at p and ) at q with one or more word characters and nothing
\* else between them
placeholderAt(c, p, q) ==
    /\ substr(c, p, 2) = "$("
    /\ q >= p + 3
    /\ at(c, q) = ")"
    /\ \A r \in (p + 2)..(q - 1) : at(c, r) \in wordChars

placeholderStarts(c) ==
    {p \in 0..(Len(c) - 1) : \E q \in 0..(Len(c) - 1) : placeholderAt(c, p, q)}

placeholderName(c, p) ==
    LET q == CHOOSE r \in 0..(Len(c) - 1) : placeholderAt(c, p, r)
    IN  substr(c, p + 2, q - p - 2)

\* the names at the positions ps, separated by ", "
RECURSIVE nameList(_, _)
nameList(c, ps) ==
    IF Len(ps) = 0 THEN ""
    ELSE placeholderName(c, ps[1])
            \o (IF Len(ps) = 1 THEN "" ELSE ", " \o nameList(c, Tail(ps)))

HasPlaceholder(c) == placeholderStarts(c) # {}

C9_WitnessPass ==
    /\ pc = "done"
    /\ find(code, "$(") # npos
    /\ find(code, ")") # npos


-----------------------------------------------------------------------------
(* The generator: what generateNeuronUpdate and generateInit do to one     *)
(* snippet code string before they write it to the stream.                 *)

\* the snippet codes of generateNeuronUpdate: substituted, coerced, checked
\* and written
GenUpdateRoles == {"psCode", "iCode", "thCode", "sCode", "eCode", "rCode", "pdCode"}

\* the snippet codes of generateInit that go through applyCheckUnreplaced:
\* the variable initialisers (queued or not, neuron or synapse) and the
\* sparse row-build code
GenInitRoles == {"initVarQueued", "initVar", "initWUVar", "rowBuildCode"}

\* the initialisers of the weight variables of procedural connectivity
GenProceduralRoles == {"proceduralWUVar"}

GenRoles == GenUpdateRoles \cup GenInitRoles \cup GenProceduralRoles

\* the codes that are handled only if they are not empty
GenNonEmptyRoles == {"thCode", "rCode"} \cup GenInitRoles \cup GenProceduralRoles

\* the second argument of the check
GenCodeName(r) ==
    CASE r = "psCode" -> "n : postSyntoCurrent"
      [] r = "iCode" -> "cs : current source injectionCode"
      [] r = "thCode" -> "n : thresholdConditionCode"
      [] r = "sCode" -> "n : neuron simCode"
      [] r = "eCode" -> "n : neuronSpkEvntCondition"
      [] r = "rCode" -> "n : resetCode"
      [] r = "pdCode" -> "n : postSynDecay"
      [] r = "rowBuildCode" -> "initSparseConnectivity : sg"
      [] OTHER -> "initVar : Vn"

\* the variable substitutions in force: name and value
GenSubstitutions == << <<"V", "lV">>, <<"value", "dd_Vn[id]">> >>

\* Substitutions::apply: one substitute call per substitution, from the
\* k-th on
RECURSIVE applyFrom(_, _)
applyFrom(c, k) ==
    IF k > Len(GenSubstitutions) THEN c
    ELSE applyFrom(substitute(c, "$(" \o GenSubstitutions[k][1] \o ")",
                              GenSubstitutions[k][2]), k + 1)

apply(c) == applyFrom(c, 1)

GenAtoms == {"$(V)", "$(x)", "$(value)", "1.5", "$(", ")"}

GenInit ==
    /\ role \in GenRoles
    /\ oldcode \in StringsUpTo(GenAtoms, MaxAtoms)
    /\ role \in GenNonEmptyRoles => oldcode # ""
    /\ type \in {"float", "double"}
    /\ code = oldcode
    /\ codeName = GenCodeName(role)
    /\ err = ""
    /\ os = <<>>
    /\ pc = "apply"
    /\ genOthersIdle

\* subs.apply(code)
GenApply ==
    /\ pc = "apply"
    /\ role \in GenUpdateRoles \cup GenProceduralRoles
    /\ code' = apply(code)
    /\ pc' = "ftype"
    /\ UNCHANGED <<oldcode, type, codeName, err, role, os, genOthers>>

\* subs.applyCheckUnreplaced(code, codeName): the check passes
GenApplyCheck ==
    /\ pc = "apply"
    /\ role \in GenInitRoles
    /\ checkUnreplacedVariables(apply(code), codeName) = ""
    /\ code' = apply(code)
    /\ pc' = "ftype"
    /\ UNCHANGED <<oldcode, type, codeName, err, role, os, genOthers>>

\* subs.applyCheckUnreplaced(code, codeName): the check fails
GenApplyCheckError ==
    /\ pc = "apply"
    /\ role \in GenInitRoles
    /\ checkUnreplacedVariables(apply(code), codeName) # ""
    /\ code' = apply(code)
    /\ err' = checkUnreplacedVariables(code', codeName)
    /\ pc' = "error"
    /\ UNCHANGED <<oldcode, type, codeName, role, os, genOthers>>

\* code = ensureFtype(code, precision)
GenEnsureFtype ==
    /\ pc = "ftype"
    /\ code' = ensureFtype(code, type)
    /\ pc' = IF role \in GenUpdateRoles THEN "check" ELSE "write"
    /\ UNCHANGED <<oldcode, type, codeName, err, role, os, genOthers>>

\* checkUnreplacedVariables(code, codeName) returns
GenCheck ==
    /\ pc = "check"
    /\ checkUnreplacedVariables(code, codeName) = ""
    /\ pc' = "write"
    /\ UNCHANGED <<code, oldcode, type, codeName, err, role, os, genOthers>>

\* checkUnreplacedVariables(code, codeName) ends in gennError
GenCheckError ==
    /\ pc = "check"
    /\ checkUnreplacedVariables(code, codeName) # ""
    /\ err' = checkUnreplacedVariables(code, codeName)
    /\ pc' = "error"
    /\ UNCHANGED <<code, oldcode, type, codeName, role, os, genOthers>>

\* os << code
GenWrite ==
    /\ pc = "write"
    /\ os' = Append(os, [role |-> role, text |-> code])
    /\ pc' = "done"
    /\ UNCHANGED <<code, oldcode, type, codeName, err, role, genOthers>>

GenNext ==
    \/ GenApply \/ GenApplyCheck \/ GenApplyCheckError \/ GenEnsureFtype
    \/ GenCheck \/ GenCheckError \/ GenWrite

SpecGen == GenInit /\ [][GenNext]_vars

C10_WitnessError ==
    /\ pc = "error"
    /\ role \in GenInitRoles
    /\ os = <<>>
    /\ HasPlaceholder(code)


-----------------------------------------------------------------------------
(* modelSpec.h: ModelSpec::addNeuronPopulation, addSynapsePopulation and   *)
(* addCurrentSource, in the build with and in the build without            *)
(* MPI_ENABLE.  A registry (std::map) is a function from names to groups;  *)
(* a pointer to a neuron group is the pair of its registry and its name.   *)

\* most add calls made on a model
MaxAdds == 4

MsNeuronNames == {"A", "B"}
MsSynapseNames == {"S"}
MsCurrentSourceNames == {"C"}
MsHostIDs == {0, 1}

\* findNeuronGroupInternal(name): the local group of that name, else the
\* remote one, else none (the call throws)
findNeuronGroupInternal(name) ==
    IF name \in DOMAIN m_LocalNeuronGroups THEN <<"local", name>>
    ELSE IF name \in DOMAIN m_RemoteNeuronGroups THEN <<"remote", name>>
    ELSE <<>>

\* getClusterHostID() of the group a pointer refers to
getClusterHostID(g) ==
    IF g[1] = "local" THEN m_LocalNeuronGroups[g[2]].hostID
    ELSE m_RemoteNeuronGroups[g[2]].hostID

\* which registry groupMap refers to for a group on host hostID
groupMapOf(hostID) ==
    IF mpiEnabled /\ hostID # mpiHostID THEN "remote" ELSE "local"

MsInit ==
    /\ mpiEnabled \in BOOLEAN
    /\ mpiHostID \in (IF mpiEnabled THEN MsHostIDs ELSE {0})
    /\ m_LocalNeuronGroups = <<>> /\ m_RemoteNeuronGroups = <<>>
    /\ m_LocalSynapseGroups = <<>> /\ m_RemoteSynapseGroups = <<>>
    /\ m_LocalCurrentSources = <<>> /\ m_RemoteCurrentSources = <<>>
    /\ thrown = "" /\ lastCall = <<>> /\ calls = 0
    /\ pc = "model"
    /\ msOthersIdle

\* addNeuronPopulation(name, ..., hostID): emplace adds the group
AddNeuronPopulation(name, hostID) ==
    LET reg == groupMapOf(hostID)
        grp == [hostID |-> IF mpiEnabled THEN hostID ELSE 0, currentSources |-> <<>>]
    IN  /\ calls < MaxAdds
        /\ name \notin DOMAIN (IF reg = "local" THEN m_LocalNeuronGroups
                                                ELSE m_RemoteNeuronGroups)
        /\ IF reg = "local"
           THEN /\ m_LocalNeuronGroups' = m_LocalNeuronGroups @@ (name :> grp)
                /\ UNCHANGED m_RemoteNeuronGroups
           ELSE /\ m_RemoteNeuronGroups' = m_RemoteNeuronGroups @@ (name :> grp)
                /\ UNCHANGED m_LocalNeuronGroups
        /\ thrown' = ""
        /\ lastCall' = <<"addNeuronPopulation", name>>
        /\ calls' = calls + 1
        /\ UNCHANGED <<pc, mpiEnabled, mpiHostID, m_LocalSynapseGroups,
                       m_RemoteSynapseGroups, m_LocalCurrentSources,
                       m_RemoteCurrentSources, msOthers>>

\* addNeuronPopulation(name, ..., hostID): emplace finds the name in
\* groupMap, !result.second
AddNeuronPopulationThrows(name, hostID) ==
    /\ calls < MaxAdds
    /\ name \in DOMAIN (IF groupMapOf(hostID) = "local" THEN m_LocalNeuronGroups
                                                        ELSE m_RemoteNeuronGroups)
    /\ thrown' = "Cannot add a neuron population with duplicate name:" \o name
    /\ lastCall' = <<"addNeuronPopulation", name>>
    /\ calls' = calls + 1
    /\ UNCHANGED <<pc, mpiEnabled, mpiHostID, m_LocalNeuronGroups,
                   m_RemoteNeuronGroups, m_LocalSynapseGroups,
                   m_RemoteSynapseGroups, m_LocalCurrentSources,
                   m_RemoteCurrentSources, msOthers>>

\* an add call names a neuron group that does not exist:
\* findNeuronGroupInternal throws
AddUnknownNeuronGroup(fn, name, ngs) ==
    /\ calls < MaxAdds
    /\ \E n \in ngs : findNeuronGroupInternal(n) = <<>>
    /\ thrown' = "neuron group not found"
    /\ lastCall' = <<fn, name>>
    /\ calls' = calls + 1
    /\ UNCHANGED <<pc, mpiEnabled, mpiHostID, m_LocalNeuronGroups,
                   m_RemoteNeuronGroups, m_LocalSynapseGroups,
                   m_RemoteSynapseGroups, m_LocalCurrentSources,
                   m_RemoteCurrentSources, msOthers>>

\* addSynapsePopulation(name, ..., src, trg, ...): emplace adds the group
\* to the registry of the host of the target
AddSynapsePopulation(name, src, tgt) ==
    LET srcNeuronGrp == findNeuronGroupInternal(src)
        trgNeuronGrp == findNeuronGroupInternal(tgt)
        reg == groupMapOf(getClusterHostID(trgNeuronGrp))
        grp == [src |-> srcNeuronGrp, trg |-> trgNeuronGrp]
    IN  /\ calls < MaxAdds
        /\ srcNeuronGrp # <<>> /\ trgNeuronGrp # <<>>
        /\ name \notin DOMAIN (IF reg = "local" THEN m_LocalSynapseGroups
                                                ELSE m_RemoteSynapseGroups)
        /\ IF reg = "local"
           THEN /\ m_LocalSynapseGroups' = m_LocalSynapseGroups @@ (name :> grp)
                /\ UNCHANGED m_RemoteSynapseGroups
           ELSE /\ m_RemoteSynapseGroups' = m_RemoteSynapseGroups @@ (name :> grp)
                /\ UNCHANGED m_LocalSynapseGroups
        /\ thrown' = ""
        /\ lastCall' = <<"addSynapsePopulation", name>>
        /\ calls' = calls + 1
        /\ UNCHANGED <<pc, mpiEnabled, mpiHostID, m_LocalNeuronGroups,
                       m_RemoteNeuronGroups, m_LocalCurrentSources,
                       m_RemoteCurrentSources, msOthers>>

\* addSynapsePopulation: emplace finds the name in groupMap
AddSynapsePopulationThrows(name, src, tgt) ==
    LET srcNeuronGrp == findNeuronGroupInternal(src)
        trgNeuronGrp == findNeuronGroupInternal(tgt)
    IN  /\ calls < MaxAdds
        /\ srcNeuronGrp # <<>> /\ trgNeuronGrp # <<>>
        /\ name \in DOMAIN (IF groupMapOf(getClusterHostID(trgNeuronGrp)) = "local"
                            THEN m_LocalSynapseGroups ELSE m_RemoteSynapseGroups)
        /\ thrown' = "Cannot add a synapse population with duplicate name:" \o name
        /\ lastCall' = <<"addSynapsePopulation", name>>
        /\ calls' = calls + 1
        /\ UNCHANGED <<pc, mpiEnabled, mpiHostID, m_LocalNeuronGroups,
                       m_RemoteNeuronGroups, m_LocalSynapseGroups,
                       m_RemoteSynapseGroups, m_LocalCurrentSources,
                       m_RemoteCurrentSources, msOthers>>

\* targetGroup->injectCurrent(source): the list of the target grows by the
\* pointer to the source
injectCurrent(ngs, name, source) ==
    [ngs EXCEPT ![name].currentSources = Append(@, source)]

\* addCurrentSource(currentSourceName, ..., targetNeuronGroupName, ...):
\* emplace adds the source, which is injected into the target
AddCurrentSource(name, tgt) ==
    LET targetGroup == findNeuronGroupInternal(tgt)
        reg == groupMapOf(getClusterHostID(targetGroup))
    IN  /\ calls < MaxAdds
        /\ targetGroup # <<>>
        /\ name \notin DOMAIN (IF reg = "local" THEN m_LocalCurrentSources
                                                ELSE m_RemoteCurrentSources)
        /\ IF reg = "local"
           THEN /\ m_LocalCurrentSources' = m_LocalCurrentSources @@ (name :> [name |-> name])
                /\ UNCHANGED m_RemoteCurrentSources
           ELSE /\ m_RemoteCurrentSources' = m_RemoteCurrentSources @@ (name :> [name |-> name])
                /\ UNCHANGED m_LocalCurrentSources
        /\ IF targetGroup[1] = "local"
           THEN /\ m_LocalNeuronGroups' = injectCurrent(m_LocalNeuronGroups, tgt, <<reg, name>>)
                /\ UNCHANGED m_RemoteNeuronGroups
           ELSE /\ m_RemoteNeuronGroups' = injectCurrent(m_RemoteNeuronGroups, tgt, <<reg, name>>)
                /\ UNCHANGED m_LocalNeuronGroups
        /\ thrown' = ""
        /\ lastCall' = <<"addCurrentSource", name>>
        /\ calls' = calls + 1
        /\ UNCHANGED <<pc, mpiEnabled, mpiHostID, m_LocalSynapseGroups,
                       m_RemoteSynapseGroups, msOthers>>

\* addCurrentSource: emplace finds the name in groupMap
AddCurrentSourceThrows(name, tgt) ==
    LET targetGroup == findNeuronGroupInternal(tgt)
    IN  /\ calls < MaxAdds
        /\ targetGroup # <<>>
        /\ name \in DOMAIN (IF groupMapOf(getClusterHostID(targetGroup)) = "local"
                            THEN m_LocalCurrentSources ELSE m_RemoteCurrentSources)
        /\ thrown' = "Cannot add a current source with duplicate name:" \o name
        /\ lastCall' = <<"addCurrentSource", name>>
        /\ calls' = calls + 1
        /\ UNCHANGED <<pc, mpiEnabled, mpiHostID, m_LocalNeuronGroups,
                       m_RemoteNeuronGroups, m_LocalSynapseGroups,
                       m_RemoteSynapseGroups, m_LocalCurrentSources,
                       m_RemoteCurrentSources, msOthers>>

MsNext ==
    \/ \E name \in MsNeuronNames, hostID \in MsHostIDs :
          AddNeuronPopulation(name, hostID)
    \/ \E name \in MsNeuronNames, hostID \in MsHostIDs :
          AddNeuronPopulationThrows(name, hostID)
    \/ \E name \in MsSynapseNames, src \in MsNeuronNames, tgt \in MsNeuronNames :
          AddSynapsePopulation(name, src, tgt)
    \/ \E name \in MsSynapseNames, src \in MsNeuronNames, tgt \in MsNeuronNames :
          AddSynapsePopulationThrows(name, src, tgt)
    \/ \E name \in MsSynapseNames, src \in MsNeuronNames, tgt \in MsNeuronNames :
          AddUnknownNeuronGroup("addSynapsePopulation", name, {src, tgt})
    \/ \E name \in MsCurrentSourceNames, tgt \in MsNeuronNames :
          AddCurrentSource(name, tgt)
    \/ \E name \in MsCurrentSourceNames, tgt \in MsNeuronNames :
          AddCurrentSourceThrows(name, tgt)
    \/ \E name \in MsCurrentSourceNames, tgt \in MsNeuronNames :
          AddUnknownNeuronGroup("addCurrentSource", name, {tgt})

SpecModel == MsInit /\ [][MsNext]_vars

\* --- the names in use, the two registries of a category taken together ---

\* how many groups named n the registries l and r hold between them
groupsNamed(l, r, n) ==
    (IF n \in DOMAIN l THEN 1 ELSE 0) + (IF n \in DOMAIN r THEN 1 ELSE 0)

\* the registries of the category an add function adds to
nameUsedIn(fn, n) ==
    CASE fn = "addNeuronPopulation" ->
            groupsNamed(m_LocalNeuronGroups, m_RemoteNeuronGroups, n) > 0
      [] fn = "addSynapsePopulation" ->
            groupsNamed(m_LocalSynapseGroups, m_RemoteSynapseGroups, n) > 0
      [] fn = "addCurrentSource" ->
            groupsNamed(m_LocalCurrentSources, m_RemoteCurrentSources, n) > 0

registries ==
    <<m_LocalNeuronGroups, m_RemoteNeuronGroups, m_LocalSynapseGroups,
      m_RemoteSynapseGroups, m_LocalCurrentSources, m_RemoteCurrentSources>>

\* C11: after any sequence of add calls no two neuron groups of the model
\* share a name, no two synapse groups do and no two current sources do,
\* the local and the remote registry counted together.
C11_NamesUnique ==
    /\ \A n \in MsNeuronNames :
          groupsNamed(m_LocalNeuronGroups, m_RemoteNeuronGroups, n) <= 1
    /\ \A n \in MsSynapseNames :
          groupsNamed(m_LocalSynapseGroups, m_RemoteSynapseGroups, n) <= 1
    /\ \A n \in MsCurrentSourceNames :
          groupsNamed(m_LocalCurrentSources, m_RemoteCurrentSources, n) <= 1

\* the same in the build without MPI_ENABLE
C11_NamesUniqueWithoutMPI == ~mpiEnabled => C11_NamesUnique

\* C12: an add call whose name is already used in its category throws and
\* leaves every registry, and with it the list of current sources of every
\* neuron group, as it was; an add call with a name not yet used, for
\* neuron groups that exist, does not throw.
C12_DuplicateRejected ==
    [][calls' = calls + 1 =>
         /\ nameUsedIn(lastCall'[1], lastCall'[2]) =>
               (thrown' # "" /\ registries' = registries)
         /\ thrown' # "" => registries' = registries
         /\ ~nameUsedIn(lastCall'[1], lastCall'[2]) =>
               thrown' \in {"", "neuron group not found"}]_vars

\* the same in the build without MPI_ENABLE
C12_DuplicateRejectedWithoutMPI ==
    [][(~mpiEnabled /\ calls' = calls + 1) =>
         /\ nameUsedIn(lastCall'[1], lastCall'[2]) =>
               (thrown' # "" /\ registries' = registries)
         /\ thrown' # "" => registries' = registries
         /\ ~nameUsedIn(lastCall'[1], lastCall'[2]) =>
               thrown' \in {"", "neuron group not found"}]_vars


-----------------------------------------------------------------------------
(* ModelSpec::finalize, as far as it settles the delay slots and the       *)
(* variable queues of one neuron group from its outgoing synapse groups.   *)
(* NeuronGroup::checkNumDelaySlots and updatePreVarQueues are declared in  *)
(* neuronGroup.h; what they do is taken from section 4.2.                  *)

\* most outgoing synapse groups of the neuron group
MaxOutSyn == 2

\* the variables of the neuron model
FinVars == {"V", "U"}

\* the delay steps of a synapse group (NO_DELAY is 0)
FinDelaySteps == {0, 1, 3}

\* the weight update codes of a synapse group
FinCodes == {"", "$(addToInSyn, $(g));", "$(g) += $(V_pre);", "$(x) = $(U_pre) * $(V_pre) + $(V_post);"}

FinSynapseGroups == [delaySteps : FinDelaySteps, code : FinCodes]

\* the slots after checkNumDelaySlots(requiredDelay), were it to do nothing
checkNumDelaySlotsKeep(slots, requiredDelay) == slots

\* the slots after checkNumDelaySlots(requiredDelay): extended if required
checkNumDelaySlots(slots, requiredDelay) ==
    IF requiredDelay >= slots THEN requiredDelay + 1 ELSE slots

\* the flags after updatePreVarQueues(c): a variable X whose $(X_pre)
\* occurs in c requires a queue
updatePreVarQueues(q, c) ==
    [v \in FinVars |-> q[v] \/ find(c, "$(" \o v \o "_pre)") # npos]

RECURSIVE SeqsOfLen(_, _)
SeqsOfLen(S, n) ==
    IF n = 0 THEN {<<>>} ELSE {Append(sq, x) : sq \in SeqsOfLen(S, n - 1), x \in S}

FinInit ==
    /\ m_OutSyn \in UNION {SeqsOfLen(FinSynapseGroups, n) : n \in 0..MaxOutSyn}
    /\ m_NumDelaySlots = 1
    /\ m_VarQueueRequired = [v \in FinVars |-> FALSE]
    /\ outIdx = 1
    /\ pc = "finalize"
    /\ finOthersIdle

\* the next outgoing synapse group: its delay widens the slots and, if it
\* has delayed access, the pre-variables its code refers to get queues
FinSynapseGroup ==
    /\ pc = "finalize"
    /\ outIdx <= Len(m_OutSyn)
    /\ m_NumDelaySlots' = checkNumDelaySlots(m_NumDelaySlots, m_OutSyn[outIdx].delaySteps)
    /\ m_VarQueueRequired' =
          IF m_OutSyn[outIdx].delaySteps > 0
          THEN updatePreVarQueues(m_VarQueueRequired, m_OutSyn[outIdx].code)
          ELSE m_VarQueueRequired
    /\ outIdx' = outIdx + 1
    /\ UNCHANGED <<pc, m_OutSyn, finOthers>>

\* all outgoing synapse groups done
FinDone ==
    /\ pc = "finalize"
    /\ outIdx > Len(m_OutSyn)
    /\ pc' = "finalized"
    /\ UNCHANGED <<finVars, finOthers>>

FinNext == FinSynapseGroup \/ FinDone

SpecFinalize == FinInit /\ [][FinNext]_vars

\* NeuronGroup::isDelayRequired
isDelayRequired == m_NumDelaySlots > 1

\* C13: after finalize, for every outgoing synapse group with delay steps
\* > 0 whose code refers to $(X_pre), the neuron group has at least delay
\* steps + 1 delay slots and X requires a queue; the delay slots are at
\* least the largest delay steps + 1 over the outgoing synapse groups with
\* a delay; and isDelayRequired holds exactly if there is more than one
\* delay slot.
C13_DelaySlotsAndQueues ==
    pc = "finalized" =>
        /\ \A k \in 1..Len(m_OutSyn) : \A v \in FinVars :
              (m_OutSyn[k].delaySteps > 0
                 /\ find(m_OutSyn[k].code, "$(" \o v \o "_pre)") # npos)
              => (m_NumDelaySlots >= m_OutSyn[k].delaySteps + 1
                    /\ m_VarQueueRequired[v])
        /\ \A k \in 1..Len(m_OutSyn) :
              m_OutSyn[k].delaySteps > 0 => m_NumDelaySlots >= m_OutSyn[k].delaySteps + 1
        /\ isDelayRequired <=> m_NumDelaySlots > 1

\* finalize is done for a neuron group with an outgoing synapse group of
\* delay 3 that refers to $(V_pre): four slots, and V has a queue
C13_Witness ==
    /\ pc = "finalized"
    /\ \E k \in 1..Len(m_OutSyn) :
          m_OutSyn[k].delaySteps = 3 /\ find(m_OutSyn[k].code, "$(V_pre)") # npos
    /\ m_NumDelaySlots = 4
    /\ m_VarQueueRequired["V"]
    /\ ~m_VarQueueRequired["U"]

-----------------------------------------------------------------------------
(* The presynaptic update strategies of the CUDA backend                   *)
(* (presynapticUpdateStrategy.cc): the compatibility tests, and what each  *)
(* strategy writes about the accumulation of postsynaptic input in its     *)
(* preamble, update and postamble.  The loop that picks the strategy of a  *)
(* synapse group is in the backend; its order is that of section 4.4.      *)

\* most weight update variables of a synapse group
MaxWUVars == 2

StratConnectivities == {"DENSE", "SPARSE", "BITMASK", "PROCEDURAL"}

StratSpanTypes == {"PRESYNAPTIC", "POSTSYNAPTIC"}

StratVarImplementations == {"INDIVIDUAL", "GLOBAL", "PROCEDURAL"}

\* the synapse groups: the target population has 32 or 64 neurons
StratSynapseGroups ==
    [matrixConnectivity : StratConnectivities,
     spanType : StratSpanTypes,
     wuVarImplementation :
         UNION {SeqsOfLen(StratVarImplementations, n) : n \in 0..MaxWUVars},
     dendriticDelayRequired : BOOLEAN,
     psModelMerged : BOOLEAN,
     numTrgNeurons : {32, 64}]

\* the backends: a Kepler or a Maxwell device, blocks of 32 threads
StratBackends == [major : {3, 5}, blockSize : {32}]

\* the strategies in the order in which they are tried
Strategies == <<"PreSpanProcedural", "PreSpan", "PostSpan">>

\* the test of PreSpan, were it to ignore the span type
PreSpan_isCompatibleAnySpan(g) == g.matrixConnectivity = "SPARSE"

PreSpan_isCompatible(g) ==
    g.spanType = "PRESYNAPTIC" /\ g.matrixConnectivity = "SPARSE"

\* the test of PostSpan, were it to ignore the span type
PostSpan_isCompatibleAnySpan(g) == ~(g.matrixConnectivity = "PROCEDURAL")

PostSpan_isCompatible(g) ==
    g.spanType = "POSTSYNAPTIC" /\ ~(g.matrixConnectivity = "PROCEDURAL")

PreSpanProcedural_isCompatible(g) ==
    IF g.matrixConnectivity = "PROCEDURAL"
    THEN \A k \in 1..Len(g.wuVarImplementation) :
             g.wuVarImplementation[k] = "GLOBAL" \/ g.wuVarImplementation[k] = "PROCEDURAL"
    ELSE FALSE

\* the virtual call strategy->isCompatible(sg)
isCompatible(s, g) ==
    CASE s = "PreSpanProcedural" -> PreSpanProcedural_isCompatible(g)
      [] s = "PreSpan" -> PreSpan_isCompatible(g)
      [] s = "PostSpan" -> PostSpan_isCompatible(g)

isSmallSharedMemoryPop(g, b) ==
    IF b.major < 5 THEN FALSE
    ELSE IF g.dendriticDelayRequired THEN FALSE
    ELSE IF g.numTrgNeurons <= b.blockSize THEN TRUE
    ELSE FALSE

shouldAccumulateInRegister(g) ==
    /\ ~g.dendriticDelayRequired
    /\ (g.matrixConnectivity = "DENSE" \/ g.matrixConnectivity = "BITMASK")

\* backend.getFloatAtomicAdd(model.getPrecision())
getFloatAtomicAdd == "atomicAdd"

\* sg.getDendriticDelayOffset("dd_", offset)
getDendriticDelayOffset(offset) == "denDelayOffset(" \o offset \o ") + "

\* dd_inSyn + sg.getPSModelTargetName()
dd_inSyn == "dd_inSynT"

\* dd_denDelay + sg.getPSModelTargetName()
dd_denDelay == "dd_denDelayT"

genSmallSharedMemoryPopPreamble == <<"shLg[threadIdx.x] = 0;">>

\* the flush of the shared accumulator, were it never atomic
genSmallSharedMemoryPopPostamblePlain(g) ==
    <<dd_inSyn \o "[threadIdx.x] += shLg[threadIdx.x];">>

genSmallSharedMemoryPopPostamble(g) ==
    IF g.psModelMerged
    THEN <<getFloatAtomicAdd \o "(&" \o dd_inSyn \o "[threadIdx.x], shLg[threadIdx.x]);">>
    ELSE <<dd_inSyn \o "[threadIdx.x] += shLg[threadIdx.x];">>

\* what the strategy binds $(id_post) to; popSubs["id"] is "lid"
idPost(s, g) ==
    CASE s = "PreSpanProcedural" -> "$(id_post)"
      [] s = "PreSpan" -> "ipost"
      [] s = "PostSpan" -> IF g.matrixConnectivity = "SPARSE" THEN "ipost" ELSE "lid"

\* a preamble that never declares a register accumulator
genPreambleShared(s, g, b) ==
    IF isSmallSharedMemoryPop(g, b) THEN genSmallSharedMemoryPopPreamble ELSE <<>>

\* the preamble a strategy writes
genPreamble(s, g, b) ==
    IF s = "PostSpan"
    THEN IF shouldAccumulateInRegister(g) THEN <<"float linSyn = 0;">>
         ELSE IF isSmallSharedMemoryPop(g, b) THEN genSmallSharedMemoryPopPreamble
         ELSE <<>>
    ELSE IF isSmallSharedMemoryPop(g, b) THEN genSmallSharedMemoryPopPreamble
         ELSE <<>>

\* the function substitution PreSpan::genUpdate and
\* PreSpanProcedural::genUpdate add to synSubs: name, arity, template
PreSpan_funcSubstitution(s, g, b) ==
    IF g.dendriticDelayRequired
    THEN <<"addToInSynDelay", 2,
           getFloatAtomicAdd \o "(&" \o dd_denDelay \o "[" \o getDendriticDelayOffset("$(1)")
               \o idPost(s, g) \o "], $(0))">>
    ELSE IF isSmallSharedMemoryPop(g, b)
         THEN <<"addToInSyn", 1,
                getFloatAtomicAdd \o "(&shLg[" \o idPost(s, g) \o "], $(0))">>
         ELSE <<"addToInSyn", 1,
                getFloatAtomicAdd \o "(&" \o dd_inSyn \o "[" \o idPost(s, g) \o "], $(0))">>

\* the function substitution PostSpan::genUpdate adds to synSubs
PostSpan_funcSubstitution(s, g, b) ==
    IF g.dendriticDelayRequired
    THEN <<"addToInSynDelay", 2,
           getFloatAtomicAdd \o "(&" \o dd_denDelay \o "[" \o getDendriticDelayOffset("$(1)")
               \o idPost(s, g) \o "], $(0))">>
    ELSE IF shouldAccumulateInRegister(g)
         THEN <<"addToInSyn", 1, "linSyn += $(0)">>
         ELSE IF isSmallSharedMemoryPop(g, b)
              THEN <<"addToInSyn", 1, "shLg[" \o idPost(s, g) \o "] += $(0)">>
              ELSE <<"addToInSyn", 1,
                     getFloatAtomicAdd \o "(&" \o dd_inSyn \o "[" \o idPost(s, g) \o "], $(0))">>

funcSubstitution(s, g, b) ==
    IF s = "PostSpan" THEN PostSpan_funcSubstitution(s, g, b)
    ELSE PreSpan_funcSubstitution(s, g, b)

\* the weight update sim code after the function substitution f: the
\* code calls the accumulation function f binds, with arguments x and d
wumSimHandler(f) ==
    substitute(substitute(f[3], "$(0)", "x"), "$(1)", "d") \o ";"

\* the postamble a strategy writes
genPostamble(s, g, b) ==
    IF s = "PostSpan"
    THEN IF shouldAccumulateInRegister(g)
         THEN IF g.psModelMerged
              THEN <<getFloatAtomicAdd \o "(&" \o dd_inSyn \o "[lid], linSyn);">>
              ELSE <<dd_inSyn \o "[lid] += linSyn;">>
         ELSE IF isSmallSharedMemoryPop(g, b) THEN genSmallSharedMemoryPopPostamble(g)
         ELSE <<>>
    ELSE IF isSmallSharedMemoryPop(g, b) THEN genSmallSharedMemoryPopPostamble(g)
         ELSE <<>>

StratInit ==
    /\ sg \in StratSynapseGroups
    /\ backend \in StratBackends
    /\ stratIdx = 1
    /\ strategy = ""
    /\ funcSubs = <<>>
    /\ kernel = <<>>
    /\ pc = "select"
    /\ stratOthersIdle

\* the strategy tried is not compatible: on to the next one
StratIncompatible ==
    /\ pc = "select"
    /\ stratIdx <= Len(Strategies)
    /\ ~isCompatible(Strategies[stratIdx], sg)
    /\ stratIdx' = stratIdx + 1
    /\ UNCHANGED <<pc, sg, backend, strategy, funcSubs, kernel, stratOthers>>

\* the strategy tried is compatible: it is the strategy of the group
StratSelect ==
    /\ pc = "select"
    /\ stratIdx <= Len(Strategies)
    /\ isCompatible(Strategies[stratIdx], sg)
    /\ strategy' = Strategies[stratIdx]
    /\ pc' = "preamble"
    /\ UNCHANGED <<sg, backend, stratIdx, funcSubs, kernel, stratOthers>>

\* no strategy is compatible: generation fails
StratNone ==
    /\ pc = "select"
    /\ stratIdx > Len(Strategies)
    /\ pc' = "no strategy"
    /\ UNCHANGED <<stratVars, stratOthers>>

StratPreamble ==
    /\ pc = "preamble"
    /\ kernel' = kernel \o genPreamble(strategy, sg, backend)
    /\ pc' = "update"
    /\ UNCHANGED <<sg, backend, stratIdx, strategy, funcSubs, stratOthers>>

StratUpdate ==
    /\ pc = "update"
    /\ funcSubs' = funcSubstitution(strategy, sg, backend)
    /\ kernel' = Append(kernel, wumSimHandler(funcSubstitution(strategy, sg, backend)))
    /\ pc' = "postamble"
    /\ UNCHANGED <<sg, backend, stratIdx, strategy, stratOthers>>

StratPostamble ==
    /\ pc = "postamble"
    /\ kernel' = kernel \o genPostamble(strategy, sg, backend)
    /\ pc' = "generated"
    /\ UNCHANGED <<sg, backend, stratIdx, strategy, funcSubs, stratOthers>>

StratNext ==
    \/ StratIncompatible
    \/ StratSelect
    \/ StratNone
    \/ StratPreamble
    \/ StratUpdate
    \/ StratPostamble

SpecStrategy == StratInit /\ [][StratNext]_vars

\* the strategies whose compatibility test holds for g
compatibleStrategies(g) ==
    {k \in 1..Len(Strategies) : isCompatible(Strategies[k], g)}

\* selection has ended, with a strategy or without
stratSelected == pc \in {"preamble", "update", "postamble", "generated", "no strategy"}

allGlobalOrProcedural(g) ==
    \A k \in 1..Len(g.wuVarImplementation) :
        g.wuVarImplementation[k] \in {"GLOBAL", "PROCEDURAL"}

\* C14: the strategy selected is the first of PreSpanProcedural, PreSpan,
\* PostSpan whose compatibility test holds; a group with sparse
\* connectivity selects PostSpan if its span is postsynaptic and PreSpan if
\* it is presynaptic, and a group with procedural connectivity whose weight
\* variables are all global or procedural selects PreSpanProcedural.
C14_FirstCompatibleSelected ==
    (stratSelected /\ strategy # "") =>
        /\ \E k \in compatibleStrategies(sg) :
              /\ strategy = Strategies[k]
              /\ \A j \in compatibleStrategies(sg) : k <= j
        /\ (sg.matrixConnectivity = "SPARSE" /\ sg.spanType = "POSTSYNAPTIC")
              => strategy = "PostSpan"
        /\ (sg.matrixConnectivity = "SPARSE" /\ sg.spanType = "PRESYNAPTIC")
              => strategy = "PreSpan"
        /\ (sg.matrixConnectivity = "PROCEDURAL" /\ allGlobalOrProcedural(sg))
              => strategy = "PreSpanProcedural"

\* a group with procedural connectivity, a global and a procedural weight
\* variable has selected PreSpanProcedural
C14_Witness ==
    /\ stratSelected
    /\ sg.matrixConnectivity = "PROCEDURAL"
    /\ sg.wuVarImplementation = <<"GLOBAL", "PROCEDURAL">>
    /\ strategy = "PreSpanProcedural"

\* the groups for which no compatibility test holds: dense or bitmask
\* connectivity with presynaptic span, and procedural connectivity with an
\* individual weight variable
withoutStrategy(g) ==
    \/ g.matrixConnectivity \in {"DENSE", "BITMASK"} /\ g.spanType = "PRESYNAPTIC"
    \/ /\ g.matrixConnectivity = "PROCEDURAL"
       /\ \E k \in 1..Len(g.wuVarImplementation) : g.wuVarImplementation[k] = "INDIVIDUAL"

\* C15 as stated: for every combination of connectivity, span and weight
\* variable implementations, at least one compatibility test holds and
\* exactly one strategy is chosen.
C15_ExactlyOneStrategy ==
    stratSelected =>
        /\ compatibleStrategies(sg) # {}
        /\ \E k \in 1..Len(Strategies) : strategy = Strategies[k]

\* C15: for every combination of connectivity, span and weight variable
\* implementations at most one compatibility test holds; exactly one holds,
\* and its strategy is the one chosen, unless the group has dense or
\* bitmask connectivity with presynaptic span or procedural connectivity
\* with an individual weight variable: then none holds, no strategy is
\* chosen and selection fails.
C15_OneStrategyOrNone ==
    /\ Cardinality(compatibleStrategies(sg)) <= 1
    /\ stratSelected =>
          IF withoutStrategy(sg)
          THEN compatibleStrategies(sg) = {} /\ strategy = "" /\ pc = "no strategy"
          ELSE /\ Cardinality(compatibleStrategies(sg)) = 1
               /\ \E k \in compatibleStrategies(sg) : strategy = Strategies[k]
               /\ pc # "no strategy"

\* selection has failed for a dense group with presynaptic span
C15_Witness ==
    /\ pc = "no strategy"
    /\ sg.matrixConnectivity = "DENSE"
    /\ sg.spanType = "PRESYNAPTIC"
    /\ strategy = ""

\* the function substitution of genUpdate has been added
stratBound == pc \in {"postamble", "generated"}

\* the expansion the dispatch table gives the accumulation function of a
\* group: the first row that applies
tableExpansion(s, g, b) ==
    IF g.dendriticDelayRequired
    THEN "atomicAdd(&dd_denDelayT[" \o getDendriticDelayOffset("$(1)") \o idPost(s, g) \o "], $(0))"
    ELSE IF b.major >= 5 /\ g.numTrgNeurons <= b.blockSize
         THEN "atomicAdd(&shLg[" \o idPost(s, g) \o "], $(0))"
         ELSE IF g.matrixConnectivity \in {"DENSE", "BITMASK"}
              THEN "linSyn += $(0)"
              ELSE "atomicAdd(&dd_inSynT[" \o idPost(s, g) \o "], $(0))"

\* C16: in every strategy the expansion bound to the accumulation
\* function in the weight update sim code is that of the first matching
\* row of the dispatch table: dendritic delay required, an atomic add into
\* the dendritic delay buffer; else the small-population shared accumulator
\* applies, an atomic add into shLg[post]; else dense connectivity without
\* delay, linSyn += $(0); else an atomic add into inSyn[post].
C16_DispatchTable ==
    stratBound => funcSubs[3] = tableExpansion(strategy, sg, backend)

\* the same for the strategies PreSpan and PreSpanProcedural alone
C16_DispatchTablePreSpan ==
    (stratBound /\ strategy # "PostSpan") =>
        funcSubs[3] = tableExpansion(strategy, sg, backend)

\* the expansion PostSpan binds for a small population is a plain add into
\* the shared accumulator
C16_PostSpanPlainShared ==
    /\ stratBound
    /\ strategy = "PostSpan"
    /\ sg.matrixConnectivity = "SPARSE"
    /\ funcSubs = <<"addToInSyn", 1, "shLg[ipost] += $(0)">>

\* the statement st adds into the array named a
addsInto(st, a) ==
    \/ find(st, getFloatAtomicAdd \o "(&" \o a \o "[") = 0
    \/ find(st, a \o "[") = 0 /\ find(st, "] += ") # npos

isAtomicAdd(st) == find(st, getFloatAtomicAdd \o "(") = 0

\* C17: for a synapse group whose postsynaptic model is merged, every
\* statement written that adds into its inSyn array, in the update body or
\* in the postamble that flushes linSyn or shLg, is an atomic add; a plain
\* += into inSyn is written only for groups that are not merged.
C17_MergedAddsAtomic ==
    \A k \in 1..Len(kernel) :
        addsInto(kernel[k], dd_inSyn) =>
            /\ sg.psModelMerged => isAtomicAdd(kernel[k])
            /\ ~isAtomicAdd(kernel[k]) => ~sg.psModelMerged

\* a merged small population with presynaptic span: the postamble has
\* flushed the shared accumulator with an atomic add
C17_Witness ==
    /\ pc = "generated"
    /\ sg.psModelMerged
    /\ strategy = "PreSpan"
    /\ kernel = <<"shLg[threadIdx.x] = 0;", "atomicAdd(&shLg[ipost], x);",
                  "atomicAdd(&dd_inSynT[threadIdx.x], shLg[threadIdx.x]);">>

\* the accumulator the update body adds to
updateAccumulator ==
    IF find(funcSubs[3], "linSyn") # npos THEN "linSyn"
    ELSE IF find(funcSubs[3], "shLg[") # npos THEN "shLg"
    ELSE "global"

\* where the update body stands in the kernel
updateAt == CHOOSE k \in 1..Len(kernel) : kernel[k] = wumSimHandler(funcSubs)

\* what was written before the update body, and after it
writtenBefore == SubSeq(kernel, 1, updateAt - 1)
writtenAfter == SubSeq(kernel, updateAt + 1, Len(kernel))

\* a statement of ss names the accumulator a
namesAccumulator(ss, a) == \E k \in 1..Len(ss) : find(ss[k], a) # npos

\* C29: the accumulator the update body adds to is the one the preamble
\* initialised and the postamble flushes: linSyn is declared and flushed
\* exactly when the update adds to linSyn, shLg is zeroed and flushed
\* exactly when the update adds to shLg, and preamble and postamble write
\* nothing when the update adds to global memory or to the dendritic
\* delay buffer.
C29_AccumulatorConsistent ==
    pc = "generated" =>
        /\ namesAccumulator(writtenBefore, "linSyn") <=> updateAccumulator = "linSyn"
        /\ namesAccumulator(writtenAfter, "linSyn") <=> updateAccumulator = "linSyn"
        /\ namesAccumulator(writtenBefore, "shLg[") <=> updateAccumulator = "shLg"
        /\ namesAccumulator(writtenAfter, "shLg[") <=> updateAccumulator = "shLg"
        /\ updateAccumulator = "global" => (writtenBefore = <<>> /\ writtenAfter = <<>>)

\* PostSpan on a small dense population accumulates in the register
C29_Witness ==
    /\ pc = "generated"
    /\ strategy = "PostSpan"
    /\ isSmallSharedMemoryPop(sg, backend)
    /\ updateAccumulator = "linSyn"
    /\ writtenBefore = <<"float linSyn = 0;">>
    /\ writtenAfter # <<>>

-----------------------------------------------------------------------------
(* The accesses to the variables of a neuron group that generation writes: *)
(* the loads and stores of the neuron update (generateNeuronUpdate.cc) and *)
(* the references $(X_pre), $(X_post) in synaptic code (codeGenUtils.cc,   *)
(* neuron_substitutions_in_synaptic_code).  The neuron group is the one    *)
(* finalize has settled; it is source and target of the synapse group.     *)

\* the weight update codes handed to neuron_substitutions_in_synaptic_code
AccCodes == {"$(V_pre)*$(U_post)", "$(U_pre)+$(V_post)", "$(V_pre)-$(V_pre)"}

\* the index of variable v in the neuron update, with the given offset
neuronVarIndexRaw(q, slots, v, offset) == "id"

neuronVarIndex(q, slots, v, offset) ==
    (IF q[v] /\ slots > 1 THEN offset ELSE "") \o "id"

\* the load of variable v into its register
neuronVarRead(q, slots, v) ==
    "scalar l" \o v \o " = dd_" \o v \o "A["
        \o neuronVarIndex(q, slots, v, "readDelayOffset + ") \o "];"

\* the store of the register of variable v
neuronVarWrite(q, slots, v) ==
    "dd_" \o v \o "A[" \o neuronVarIndex(q, slots, v, "writeDelayOffset + ")
        \o "] = l" \o v \o ";"

\* the variables of the neuron model in their order
AccVarOrder == <<"V", "U">>

\* sg->getOffsetPre(): the queue offset of the source group, if it has one
getOffsetPre(slots) == IF slots > 1 THEN "offsetPre + " ELSE ""

\* sg->getOffsetPost(devPrefix): the queue offset of the target group
getOffsetPost(slots) == IF slots > 1 THEN "offsetPost + " ELSE ""

\* the loop over the variables of the source (sfx "_pre") or target
\* ("_post") neuron model, from variable k on
RECURSIVE synapticVarLoop(_, _, _, _, _, _)
synapticVarLoop(c, q, k, sfx, offset, idx) ==
    IF k > Len(AccVarOrder) THEN c
    ELSE synapticVarLoop(
             substitute(c, "$(" \o AccVarOrder[k] \o sfx \o ")",
                        IF q[AccVarOrder[k]]
                        THEN "dd_" \o AccVarOrder[k] \o "A[" \o offset \o idx \o "]"
                        ELSE "dd_" \o AccVarOrder[k] \o "A[" \o idx \o "]"),
             q, k + 1, sfx, offset, idx)

neuron_substitutions_in_synaptic_code(c, q, slots, isPoisson, preIdx, postIdx) ==
    LET c1 == IF isPoisson THEN substitute(c, "$(V_pre)", "0.5") ELSE c
        c2 == substitute(c1, "$(sT_pre)", "dd_sTA[" \o getOffsetPre(slots) \o preIdx \o "]")
        c3 == synapticVarLoop(c2, q, 1, "_pre", getOffsetPre(slots), preIdx)
        c4 == substitute(c3, "$(sT_post)", "dd_sTA[" \o getOffsetPost(slots) \o postIdx \o "]")
    IN  synapticVarLoop(c4, q, 1, "_post", getOffsetPost(slots), postIdx)

AccInit ==
    /\ m_OutSyn \in UNION {SeqsOfLen(FinSynapseGroups, n) : n \in 0..MaxOutSyn}
    /\ m_NumDelaySlots = 1
    /\ m_VarQueueRequired = [v \in FinVars |-> FALSE]
    /\ outIdx = 1
    /\ pc = "finalize"
    /\ finOthersIdle

\* the neuron update of the group: every variable is loaded, then stored
AccNeuronUpdate ==
    /\ pc = "finalized"
    /\ neuronOs' =
          [k \in 1..Len(AccVarOrder) |->
              neuronVarRead(m_VarQueueRequired, m_NumDelaySlots, AccVarOrder[k])]
          \o [k \in 1..Len(AccVarOrder) |->
              neuronVarWrite(m_VarQueueRequired, m_NumDelaySlots, AccVarOrder[k])]
    /\ pc' = "neuron update written"
    /\ UNCHANGED <<wCodeIn, wCode, poisson, accOthers>>

\* a weight update code of the synapse group is rewritten
AccSynapticCode(c, isPoisson) ==
    /\ pc = "neuron update written"
    /\ poisson' = isPoisson
    /\ wCode' = neuron_substitutions_in_synaptic_code(
                    c, m_VarQueueRequired, m_NumDelaySlots, isPoisson, "preInd", "ipost")
    /\ wCodeIn' = c
    /\ pc' = "synaptic code written"
    /\ UNCHANGED <<neuronOs, accOthers>>

AccNext ==
    \/ FinSynapseGroup
    \/ FinDone
    \/ AccNeuronUpdate
    \/ \E c \in AccCodes, isPoisson \in BOOLEAN : AccSynapticCode(c, isPoisson)

SpecAccess == AccInit /\ [][AccNext]_vars

\* the text an access to variable v with index idx has in synaptic code
synapticAccess(v, idx) == "dd_" \o v \o "A[" \o idx \o "]"

\* the synaptic code c refers to $(v_pre) (sfx "_pre") or to $(v_post)
refersTo(c, v, sfx) == find(c, "$(" \o v \o sfx \o ")") # npos

\* C18: every access written to a variable of the neuron group follows
\* the queue discipline.  A variable that requires a queue is loaded
\* through readDelayOffset and stored through writeDelayOffset in the
\* neuron update, and in synaptic code is indexed through the pre or
\* post queue offset of the synapse group; a variable that does not is
\* always indexed by the raw neuron index alone.
C18_QueueDiscipline ==
    /\ pc \in {"neuron update written", "synaptic code written"} =>
          \A k \in 1..Len(AccVarOrder) :
              LET v == AccVarOrder[k] IN
              IF m_VarQueueRequired[v]
              THEN /\ neuronOs[k] = "scalar l" \o v \o " = dd_" \o v \o "A[readDelayOffset + id];"
                   /\ neuronOs[Len(AccVarOrder) + k] =
                          "dd_" \o v \o "A[writeDelayOffset + id] = l" \o v \o ";"
              ELSE /\ neuronOs[k] = "scalar l" \o v \o " = dd_" \o v \o "A[id];"
                   /\ neuronOs[Len(AccVarOrder) + k] = "dd_" \o v \o "A[id] = l" \o v \o ";"
    /\ pc = "synaptic code written" =>
          \A v \in FinVars :
              /\ (refersTo(wCodeIn, v, "_pre") /\ ~(poisson /\ v = "V")) =>
                    IF m_VarQueueRequired[v]
                    THEN /\ find(wCode, synapticAccess(v, "offsetPre + preInd")) # npos
                         /\ find(wCode, synapticAccess(v, "preInd")) = npos
                    ELSE /\ find(wCode, synapticAccess(v, "preInd")) # npos
                         /\ find(wCode, v \o "A[offset") = npos
              /\ refersTo(wCodeIn, v, "_post") =>
                    IF m_VarQueueRequired[v]
                    THEN /\ find(wCode, synapticAccess(v, "offsetPost + ipost")) # npos
                         /\ find(wCode, synapticAccess(v, "ipost")) = npos
                    ELSE /\ find(wCode, synapticAccess(v, "ipost")) # npos
                         /\ find(wCode, v \o "A[offset") = npos
              /\ find(wCode, "$(" \o v \o "_p") = npos

\* V requires a queue and U does not: V is loaded, stored and referred to
\* through the queue offsets, U by the raw index
C18_Witness ==
    /\ pc = "synaptic code written"
    /\ m_VarQueueRequired["V"] /\ ~m_VarQueueRequired["U"]
    /\ neuronOs = <<"scalar lV = dd_VA[readDelayOffset + id];", "scalar lU = dd_UA[id];",
                    "dd_VA[writeDelayOffset + id] = lV;", "dd_UA[id] = lU;">>
    /\ wCodeIn = "$(V_pre)*$(U_post)"
    /\ wCode = "dd_VA[offsetPre + preInd]*dd_UA[ipost]"

-----------------------------------------------------------------------------
(* The kernels Backend::genNeuronUpdate of the OpenCL backend writes, and  *)
(* a run of the updateNeurons function it writes: the pre-reset kernel is  *)
(* enqueued and finished, then the neuron update kernel.  Populations are  *)
(* numbered with the remote groups first, as the kernel body is written.   *)

\* most remote neuron groups
MaxRemote == 1

\* most local neuron groups
MaxLocal == 2

\* most calls of updateNeurons
MaxSteps == 2

KrnRemoteGroups == [hasOutputToHost : BOOLEAN, numDelaySlots : {1, 2}]

\* thresholdConditionCode: the neuron model has a threshold condition
KrnLocalGroups ==
    [numDelaySlots : {1, 3}, spikeEventRequired : BOOLEAN,
     trueSpikeRequired : BOOLEAN, thresholdConditionCode : BOOLEAN,
     numNeurons : {2}]

KrnWorkGroupSizes == [KernelPreNeuronReset : {1, 2}, KernelNeuronUpdate : {2}]

numPops == Len(remoteGroups) + Len(localGroups)

popIsRemote(p) == p <= Len(remoteGroups)

popGroup(p) ==
    IF popIsRemote(p) THEN remoteGroups[p] ELSE localGroups[p - Len(remoteGroups)]

\* NeuronGroup::isDelayRequired of the group g
groupDelayRequired(g) == g.numDelaySlots > 1

\* the population has a branch if(id == ...) in the pre-reset kernel
hasResetBranch(p) ==
    IF popIsRemote(p)
    THEN popGroup(p).hasOutputToHost /\ groupDelayRequired(popGroup(p))
    ELSE TRUE

\* the value idPreNeuronReset has when the branch of population p is written
resetId(p) == Cardinality({q \in 1..(p - 1) : hasResetBranch(q)})

\* idPreNeuronReset after both loops
idPreNeuronReset == Cardinality({q \in 1..numPops : hasResetBranch(q)})

ceilDivide(numerator, denominator) == (numerator + denominator - 1) \div denominator

padSize(size, blockSize) == ceilDivide(size, blockSize) * blockSize

\* the first id of the k-th local group in the neuron update kernel
RECURSIVE groupStartId(_)
groupStartId(k) ==
    IF k = 1 THEN 0
    ELSE groupStartId(k - 1)
           + padSize(localGroups[k - 1].numNeurons, m_KernelWorkGroupSizes.KernelNeuronUpdate)

\* idStart after genParallelGroup
idStart == groupStartId(Len(localGroups) + 1)

\* the global size the pre-reset kernel is enqueued with
preResetGlobalSize == m_KernelWorkGroupSizes.KernelPreNeuronReset

\* the global size the neuron update kernel is enqueued with
neuronUpdateGlobalSize == m_KernelWorkGroupSizes.KernelNeuronUpdate

KrnInit ==
    /\ remoteGroups \in UNION {SeqsOfLen(KrnRemoteGroups, n) : n \in 0..MaxRemote}
    /\ localGroups \in UNION {SeqsOfLen(KrnLocalGroups, n) : n \in 0..MaxLocal}
    /\ m_KernelWorkGroupSizes \in KrnWorkGroupSizes
    /\ spkQuePtr = [p \in 1..numPops |-> 0]
    /\ advanced = [p \in 1..numPops |-> 0]
    /\ zeroed = {}
    /\ bumped = {}
    /\ pending = {}
    /\ timestep = 0
    /\ pc = "runner"
    /\ krnOthersIdle

\* updateNeurons(t) is called: the pre-reset kernel is enqueued if it has a
\* branch, else the neuron update kernel if it has a group
KrnUpdateNeurons ==
    /\ pc \in {"runner", "returned"}
    /\ timestep < MaxSteps
    /\ advanced' = [p \in 1..numPops |-> 0]
    /\ zeroed' = {}
    /\ bumped' = {}
    /\ IF idPreNeuronReset > 0
       THEN /\ pc' = "preNeuronReset"
            /\ pending' = 0..(preResetGlobalSize - 1)
            /\ UNCHANGED timestep
       ELSE IF idStart > 0
            THEN /\ pc' = "neuronUpdate"
                 /\ pending' = 0..((neuronUpdateGlobalSize
                                      \div m_KernelWorkGroupSizes.KernelNeuronUpdate) - 1)
                 /\ UNCHANGED timestep
            ELSE /\ pc' = "returned"
                 /\ timestep' = timestep + 1
                 /\ UNCHANGED pending
    /\ UNCHANGED <<remoteGroups, localGroups, m_KernelWorkGroupSizes, spkQuePtr, krnOthers>>

\* the work-item id of the pre-reset kernel runs
KrnPreResetItem(id) ==
    /\ pc = "preNeuronReset"
    /\ id \in pending
    /\ pending' = pending \ {id}
    /\ IF \E p \in 1..numPops : hasResetBranch(p) /\ resetId(p) = id
       THEN LET p == CHOOSE q \in 1..numPops : hasResetBranch(q) /\ resetId(q) = id
                g == popGroup(p)
                newPtr == (spkQuePtr[p] + 1) % g.numDelaySlots
            IN  IF popIsRemote(p)
                THEN /\ spkQuePtr' = [spkQuePtr EXCEPT ![p] = newPtr]
                     /\ advanced' = [advanced EXCEPT ![p] = @ + 1]
                     /\ UNCHANGED zeroed
                ELSE IF groupDelayRequired(g)
                THEN /\ spkQuePtr' = [spkQuePtr EXCEPT ![p] = newPtr]
                     /\ advanced' = [advanced EXCEPT ![p] = @ + 1]
                     /\ zeroed' = zeroed
                           \cup (IF g.spikeEventRequired
                                 THEN {<<"glbSpkCntEvnt", p, newPtr>>} ELSE {})
                           \cup (IF g.trueSpikeRequired
                                 THEN {<<"glbSpkCnt", p, newPtr>>}
                                 ELSE {<<"glbSpkCnt", p, 0>>})
                ELSE /\ zeroed' = zeroed
                           \cup (IF g.spikeEventRequired
                                 THEN {<<"glbSpkCntEvnt", p, 0>>} ELSE {})
                           \cup {<<"glbSpkCnt", p, 0>>}
                     /\ UNCHANGED <<spkQuePtr, advanced>>
       ELSE UNCHANGED <<spkQuePtr, advanced, zeroed>>
    /\ UNCHANGED <<pc, remoteGroups, localGroups, m_KernelWorkGroupSizes, bumped,
                   timestep, krnOthers>>

\* commandQueue.finish() after the pre-reset kernel; the neuron update
\* kernel is enqueued if it has a group
KrnPreResetFinish ==
    /\ pc = "preNeuronReset"
    /\ pending = {}
    /\ IF idStart > 0
       THEN /\ pc' = "neuronUpdate"
            /\ pending' = 0..((neuronUpdateGlobalSize
                                 \div m_KernelWorkGroupSizes.KernelNeuronUpdate) - 1)
            /\ UNCHANGED timestep
       ELSE /\ pc' = "returned"
            /\ timestep' = timestep + 1
            /\ UNCHANGED pending
    /\ UNCHANGED <<remoteGroups, localGroups, m_KernelWorkGroupSizes, spkQuePtr,
                   advanced, zeroed, bumped, krnOthers>>

\* the local group whose ids the work-group wg of the neuron update kernel
\* has, or 0
groupOfWorkGroup(wg) ==
    LET firstId == wg * m_KernelWorkGroupSizes.KernelNeuronUpdate
        owners == {k \in 1..Len(localGroups) :
                      groupStartId(k) <= firstId /\ firstId < groupStartId(k + 1)}
    IN  IF owners = {} THEN 0 ELSE CHOOSE k \in owners : TRUE

\* the work-group wg of the neuron update kernel runs; spike and
\* spikeEvent tell whether shSpkCount and shSpkEvntCount end above 0
KrnUpdateWorkGroup(wg, spike, spikeEvent) ==
    /\ pc = "neuronUpdate"
    /\ wg \in pending
    /\ pending' = pending \ {wg}
    /\ IF groupOfWorkGroup(wg) # 0
       THEN LET p == Len(remoteGroups) + groupOfWorkGroup(wg)
                ng == popGroup(p)
            IN  bumped' = bumped
                   \cup (IF ng.spikeEventRequired /\ spikeEvent
                         THEN {<<"glbSpkCntEvnt", p,
                                 IF groupDelayRequired(ng) THEN spkQuePtr[p] ELSE 0>>}
                         ELSE {})
                   \cup (IF ng.thresholdConditionCode /\ spike
                         THEN {<<"glbSpkCnt", p,
                                 IF groupDelayRequired(ng) /\ ng.trueSpikeRequired
                                 THEN spkQuePtr[p] ELSE 0>>}
                         ELSE {})
       ELSE UNCHANGED bumped
    /\ UNCHANGED <<pc, remoteGroups, localGroups, m_KernelWorkGroupSizes, spkQuePtr,
                   advanced, zeroed, timestep, krnOthers>>

\* commandQueue.finish() after the neuron update kernel
KrnUpdateFinish ==
    /\ pc = "neuronUpdate"
    /\ pending = {}
    /\ pc' = "returned"
    /\ timestep' = timestep + 1
    /\ UNCHANGED <<remoteGroups, localGroups, m_KernelWorkGroupSizes, spkQuePtr,
                   advanced, zeroed, bumped, pending, krnOthers>>

KrnNext ==
    \/ KrnUpdateNeurons
    \/ \E id \in pending : KrnPreResetItem(id)
    \/ KrnPreResetFinish
    \/ \E wg \in pending, spike \in BOOLEAN, spikeEvent \in BOOLEAN :
          KrnUpdateWorkGroup(wg, spike, spikeEvent)
    \/ KrnUpdateFinish

SpecKernels == KrnInit /\ [][KrnNext]_vars

\* the populations that have a queue pointer on this host
hasQueuePtr(p) == IF popIsRemote(p) THEN popGroup(p).hasOutputToHost ELSE TRUE

\* the pre-reset kernel has a work-item for each of its branches
resetCovered == idPreNeuronReset <= m_KernelWorkGroupSizes.KernelPreNeuronReset

\* C19: in each timestep of updateNeurons the queue pointer of every
\* population that requires delay is advanced exactly once, by the
\* pre-reset kernel, and that of a population without delay is never
\* advanced, however many populations there are for the work-group size of
\* the pre-reset kernel.
C19_AdvancedOncePerStep ==
    (pc = "returned" /\ timestep > 0) =>
        \A p \in 1..numPops :
            hasQueuePtr(p) =>
                /\ groupDelayRequired(popGroup(p)) =>
                      (advanced[p] = 1 /\ spkQuePtr[p] = timestep % popGroup(p).numDelaySlots)
                /\ ~groupDelayRequired(popGroup(p)) => (advanced[p] = 0 /\ spkQuePtr[p] = 0)

\* the same when the branches of the pre-reset kernel are no more than
\* its work-group size
C19_AdvancedOnceWithinWorkGroup ==
    (pc = "returned" /\ timestep > 0 /\ resetCovered) =>
        \A p \in 1..numPops :
            hasQueuePtr(p) =>
                /\ groupDelayRequired(popGroup(p)) =>
                      (advanced[p] = 1 /\ spkQuePtr[p] = timestep % popGroup(p).numDelaySlots)
                /\ ~groupDelayRequired(popGroup(p)) => (advanced[p] = 0 /\ spkQuePtr[p] = 0)

\* C20: within one timestep every spike count entry the neuron update
\* kernel adds to has been zeroed by the pre-reset kernel earlier in the
\* same timestep, whatever the group requires of delay, true spikes and
\* spike events: the slot zeroed is the slot added to, and the pre-reset
\* kernel has finished before the neuron update kernel starts.
C20_ZeroedBeforeBumped ==
    /\ bumped \subseteq zeroed
    /\ pc = "preNeuronReset" => bumped = {}

\* the same when the branches of the pre-reset kernel are no more than
\* its work-group size
C20_ZeroedWithinWorkGroup ==
    resetCovered =>
        /\ bumped \subseteq zeroed
        /\ pc = "preNeuronReset" => bumped = {}

\* one remote group with delay and one work-item: the local group has
\* added to a spike count entry that was not zeroed in this timestep
C20_NotZeroed ==
    /\ pc = "returned"
    /\ ~resetCovered
    /\ \E e \in bumped : e \notin zeroed

-----------------------------------------------------------------------------
(* PreSpanProcedural::genUpdate: the sub-rows of a row of procedural        *)
(* connectivity that the threads of one spike process.  The generated code  *)
(* runs thread 0 .. numThreadsPerSpike - 1 for each spike, in any order.    *)

\* most target neurons and most threads per spike enumerated
MaxTrg == 6
MaxThreadsPerSpike == 4

\* the postsynaptic indices a thread can be handed
RowIds == 0..(MaxThreadsPerSpike * MaxTrg - 1)

\* const unsigned int numPostPerThread = ceilDivide(numTrgNeurons, threads)
numPostPerThread(n, t) == ceilDivide(n, t)

\* const unsigned int idPostStart = thread * numPostPerThread
idPostStart(n, t, thread) == thread * numPostPerThread(n, t)

\* $(num_post): numPostPerThread when it divides numTrgNeurons, else the
\* generated numPost
numPost(n, t, thread) ==
    IF n % numPostPerThread(n, t) = 0
    THEN numPostPerThread(n, t)
    ELSE IF thread = t - 1 THEN n % numPostPerThread(n, t) ELSE numPostPerThread(n, t)

\* [id_post_begin, id_post_begin + num_post)
subRow(n, t, thread) ==
    {k \in RowIds : /\ idPostStart(n, t, thread) <= k
                    /\ k < idPostStart(n, t, thread) + numPost(n, t, thread)}

RowInit ==
    /\ numTrgNeurons \in 1..MaxTrg
    /\ numThreadsPerSpike \in 2..MaxThreadsPerSpike
    /\ ranThreads = {}
    /\ visits = [k \in RowIds |-> 0]
    /\ pc = "spike"
    /\ rowOthersIdle

\* one thread of the spike processes its sub-row
RowThread(thread) ==
    /\ pc = "spike"
    /\ thread \notin ranThreads
    /\ ranThreads' = ranThreads \cup {thread}
    /\ visits' = [k \in RowIds |->
                    IF k \in subRow(numTrgNeurons, numThreadsPerSpike, thread)
                    THEN visits[k] + 1 ELSE visits[k]]
    /\ pc' = IF ranThreads' = 0..(numThreadsPerSpike - 1) THEN "spike done" ELSE pc
    /\ UNCHANGED <<numTrgNeurons, numThreadsPerSpike, rowOthers>>

RowNext == \E thread \in 0..(numThreadsPerSpike - 1) : RowThread(thread)

SpecSubRow == RowInit /\ [][RowNext]_vars

\* C27: with more than one thread per spike, the sub-rows of threads
\* 0 .. T-1 of one spike are pairwise disjoint, lie inside [0, N) and
\* together cover every postsynaptic index 0 .. N-1 exactly once.
C27_SubRowsPartition ==
    pc = "spike done" =>
        \A k \in RowIds : visits[k] = IF k < numTrgNeurons THEN 1 ELSE 0

\* the sub-rows do partition the row when the last thread starts inside it
C27_PartitionWhenLastStartsInside ==
    (pc = "spike done"
       /\ idPostStart(numTrgNeurons, numThreadsPerSpike, numThreadsPerSpike - 1)
             < numTrgNeurons) =>
        \A k \in RowIds : visits[k] = IF k < numTrgNeurons THEN 1 ELSE 0

-----------------------------------------------------------------------------
(* The presynaptic update kernel of a synapse group with sparse             *)
(* connectivity and a small target population, as one thread block runs     *)
(* it: the preamble zeroes shLg, the update body of each thread adds its    *)
(* contributions, the postamble flushes shLg to dd_inSyn.  The threads run  *)
(* in any interleaving and meet at the __syncthreads() barriers.  A plain   *)
(* "shLg[..] += x" is a load followed by a store; atomicAdd is one step.    *)
(* Every contribution is 1.                                                 *)

\* threads of the block, target neurons and spikes in the spike block
BlkThreads == 2
BlkTargets == 2
BlkSpikes == 2

BlkThreadIds == 0..(BlkThreads - 1)
BlkTargetIds == 0..(BlkTargets - 1)

\* the synapse group of the kernel: sparse, no dendritic delay
BlkGroup ==
    [matrixConnectivity |-> "SPARSE", spanType |-> "POSTSYNAPTIC",
     wuVarImplementation |-> <<>>, dendriticDelayRequired |-> FALSE,
     psModelMerged |-> FALSE, numTrgNeurons |-> BlkTargets]

BlkBackend == [major |-> 5, blockSize |-> BlkThreads]

\* rows without multapses: each target at most once in a row
BlkRows ==
    {r \in UNION {[1..n -> BlkTargetIds] : n \in 0..BlkThreads} :
        \A a, b \in DOMAIN r : a # b => r[a] # r[b]}

\* the statement addToInSyn expands to is an atomic add
blkAtomic == isAtomicAdd(funcSubstitution(blkStrategy, BlkGroup, BlkBackend)[3])

\* the spikes j whose row has a synapse for thread lid (PostSpan: "if (lid
\* < npost)" inside "for j")
RECURSIVE postSpanTargets(_, _, _)
postSpanTargets(rows, lid, j) ==
    IF j > Len(rows) THEN <<>>
    ELSE (IF lid < Len(rows[j]) THEN <<rows[j][lid + 1]>> ELSE <<>>)
             \o postSpanTargets(rows, lid, j + 1)

\* the targets a thread adds to, in the order of its loop: PreSpan gives
\* spike lid to thread lid, which walks the row; PostSpan gives synapse lid
\* of the row of every spike j to thread lid
blkTargets(s, rows, lid) ==
    IF s = "PostSpan" THEN postSpanTargets(rows, lid, 1)
    ELSE IF lid < Len(rows) THEN rows[lid + 1] ELSE <<>>

BlkInit ==
    /\ blkStrategy \in {"PreSpan", "PostSpan"}
    /\ isSmallSharedMemoryPop(BlkGroup, BlkBackend)
    /\ dd_ind \in [1..BlkSpikes -> BlkRows]
    /\ shLg \in [BlkTargetIds -> {0, 7}]
    /\ inSynMem = [p \in BlkTargetIds |-> 0]
    /\ thr = [t \in BlkThreadIds |-> [at |-> "zero", k |-> 1, reg |-> 0]]
    /\ pc = "kernel"
    /\ blkOthersIdle

\* genSmallSharedMemoryPopPreamble: if(threadIdx.x < N) shLg[threadIdx.x] = 0
BlkZero(t) ==
    /\ pc = "kernel"
    /\ thr[t].at = "zero"
    /\ shLg' = IF t < BlkTargets THEN [shLg EXCEPT ![t] = 0] ELSE shLg
    /\ thr' = [thr EXCEPT ![t].at = "sync preamble"]
    /\ UNCHANGED <<pc, blkStrategy, dd_ind, inSynMem, blkOthers>>

\* __syncthreads() of the preamble: all threads have arrived
BlkSyncPreamble ==
    /\ pc = "kernel"
    /\ \A t \in BlkThreadIds : thr[t].at = "sync preamble"
    /\ thr' = [t \in BlkThreadIds |-> [thr[t] EXCEPT !.at = "update"]]
    /\ UNCHANGED <<pc, blkStrategy, dd_ind, shLg, inSynMem, blkOthers>>

\* addToInSyn as atomicAdd(&shLg[ipost], x)
BlkAtomicAdd(t) ==
    /\ pc = "kernel"
    /\ thr[t].at = "update"
    /\ thr[t].k <= Len(blkTargets(blkStrategy, dd_ind, t))
    /\ blkAtomic
    /\ shLg' = [shLg EXCEPT ![blkTargets(blkStrategy, dd_ind, t)[thr[t].k]] = @ + 1]
    /\ thr' = [thr EXCEPT ![t].k = @ + 1]
    /\ UNCHANGED <<pc, blkStrategy, dd_ind, inSynMem, blkOthers>>

\* addToInSyn as shLg[ipost] += x: the load
BlkLoad(t) ==
    /\ pc = "kernel"
    /\ thr[t].at = "update"
    /\ thr[t].k <= Len(blkTargets(blkStrategy, dd_ind, t))
    /\ ~blkAtomic
    /\ thr' = [thr EXCEPT ![t].at = "store",
                          ![t].reg = shLg[blkTargets(blkStrategy, dd_ind, t)[thr[t].k]]]
    /\ UNCHANGED <<pc, blkStrategy, dd_ind, shLg, inSynMem, blkOthers>>

\* addToInSyn as shLg[ipost] += x: the store
BlkStore(t) ==
    /\ pc = "kernel"
    /\ thr[t].at = "store"
    /\ shLg' = [shLg EXCEPT ![blkTargets(blkStrategy, dd_ind, t)[thr[t].k]] = thr[t].reg + 1]
    /\ thr' = [thr EXCEPT ![t].at = "update", ![t].k = @ + 1]
    /\ UNCHANGED <<pc, blkStrategy, dd_ind, inSynMem, blkOthers>>

\* the loop of the update body is left
BlkUpdateEnd(t) ==
    /\ pc = "kernel"
    /\ thr[t].at = "update"
    /\ thr[t].k > Len(blkTargets(blkStrategy, dd_ind, t))
    /\ thr' = [thr EXCEPT ![t].at = "sync postamble"]
    /\ UNCHANGED <<pc, blkStrategy, dd_ind, shLg, inSynMem, blkOthers>>

\* __syncthreads() of the postamble
BlkSyncPostamble ==
    /\ pc = "kernel"
    /\ \A t \in BlkThreadIds : thr[t].at = "sync postamble"
    /\ thr' = [t \in BlkThreadIds |-> [thr[t] EXCEPT !.at = "flush"]]
    /\ UNCHANGED <<pc, blkStrategy, dd_ind, shLg, inSynMem, blkOthers>>

\* genSmallSharedMemoryPopPostamble: dd_inSyn[threadIdx.x] += shLg[threadIdx.x]
BlkFlush(t) ==
    /\ pc = "kernel"
    /\ thr[t].at = "flush"
    /\ inSynMem' = IF t < BlkTargets THEN [inSynMem EXCEPT ![t] = @ + shLg[t]] ELSE inSynMem
    /\ thr' = [thr EXCEPT ![t].at = "done"]
    /\ pc' = IF \A u \in BlkThreadIds : thr'[u].at = "done" THEN "kernel done" ELSE pc
    /\ UNCHANGED <<blkStrategy, dd_ind, shLg, blkOthers>>

BlkNext ==
    \/ \E t \in BlkThreadIds :
          \/ BlkZero(t)
          \/ BlkAtomicAdd(t)
          \/ BlkLoad(t)
          \/ BlkStore(t)
          \/ BlkUpdateEnd(t)
          \/ BlkFlush(t)
    \/ BlkSyncPreamble
    \/ BlkSyncPostamble

SpecBlock == BlkInit /\ [][BlkNext]_vars

\* the contributions the synapses of the spike block make to target p
contributions(p) ==
    Cardinality({jk \in (1..BlkSpikes) \X (1..BlkThreads) :
                    jk[2] <= Len(dd_ind[jk[1]]) /\ dd_ind[jk[1]][jk[2]] = p})

\* two threads are between the load and the store of the same element
racing ==
    \E t, u \in BlkThreadIds :
        /\ t # u
        /\ thr[t].at = "store" /\ thr[u].at = "store"
        /\ blkTargets(blkStrategy, dd_ind, t)[thr[t].k]
             = blkTargets(blkStrategy, dd_ind, u)[thr[u].k]

\* shLg is zeroed before the first addition and flushed after the last
bracketed ==
    /\ (\E t \in BlkThreadIds : thr[t].at \in {"zero", "sync preamble"}) =>
           \A t \in BlkThreadIds : thr[t].at \in {"zero", "sync preamble"}
    /\ (\E t \in BlkThreadIds : thr[t].at \in {"flush", "done"}) =>
           \A t \in BlkThreadIds : thr[t].at \in {"flush", "done"}

\* the kernel has run and dd_inSyn has received less than was added
lostContribution ==
    pc = "kernel done" /\ \E p \in BlkTargetIds : inSynMem[p] < contributions(p)

\* C30: no contribution added to shLg is lost under any interleaving of
\* the threads of a block: two threads are never inside an unsynchronised
\* plain read-modify-write of the same element of shLg, also when they
\* work on different spikes j; shLg is zeroed before a barrier that
\* precedes all additions and flushed after a barrier that follows them,
\* so that dd_inSyn receives every contribution.
C30_NoLostContribution ==
    /\ ~racing
    /\ bracketed
    /\ pc = "kernel done" => \A p \in BlkTargetIds : inSynMem[p] = contributions(p)

\* the kernels that add with atomicAdd lose nothing
C30_AtomicKernelsLoseNothing ==
    blkAtomic =>
        /\ ~racing
        /\ bracketed
        /\ pc = "kernel done" => \A p \in BlkTargetIds : inSynMem[p] = contributions(p)

-----------------------------------------------------------------------------
(* generateNeuronUpdate.cc: the body of the neuron update kernel written   *)
(* for one neuron group, statement by statement, and one work-item running *)
(* the body written.  The neuron model has the single variable V; the      *)
(* group requires no spike-like events and no spike times.  Every snippet  *)
(* code of the model passes checkUnreplacedVariables.                      *)

\* the snippet codes of the neuron models enumerated
NbSimCodes == {"", "$(V) += 1;", "$(V) += $(Isyn);"}
NbThresholdCodes == {"", "$(V) >= 2"}
NbResetCodes == {"", "$(V) = 0;"}

\* most merged incoming synapse groups and current sources of the group
MaxInSyn == 1
MaxCurrentSources == 1

\* largest membrane value a work-item starts from
MaxV == 2

NbGroups ==
    [simCode : NbSimCodes, thresholdConditionCode : NbThresholdCodes,
     resetCode : NbResetCodes, autoRefractoryRequired : BOOLEAN,
     mergedInSyn : 0..MaxInSyn, currentSources : 0..MaxCurrentSources]

\* applyNeuronModelSubstitutions(code, ng, "l") and popSubs.apply(code)
nbApply(c) == substitute(substitute(c, "$(V)", "lV"), "$(Isyn)", "Isyn")

\* psm->getApplyInputCode() after inSynSubs.apply
psCode == substitute(nbApply("$(Isyn) += $(inSyn);"), "$(inSyn)", "linSyn")

\* CurrentSourceModels::DC::getInjectionCode() with amp = 1 substituted
injectionCode == substitute("$(injectCurrent, $(amp));", "$(amp)", "1")

\* currSourceSubs.apply(iCode): the call of injectCurrent is replaced by
\* the template "Isyn += $(0)" filled with its argument
iCodeApplied ==
    LET a == find(injectionCode, funcStart("injectCurrent"))
        b == a + Len(funcStart("injectCurrent"))
    IN  replace(injectionCode, a, closingOf(injectionCode, b) - a + 1,
                fillFrom("Isyn += $(0)", <<argOf(injectionCode, b, 1)>>, 0))

\* the test that decides whether Isyn is declared
declaresIsyn(g) == g.mergedInSyn > 0 \/ find(g.simCode, "Isyn") # npos

\* a spike test that ignores the previous state
trueSpikeTestPlain(th, g) == "if (" \o th \o ")"

\* the line that opens the true spike branch
trueSpikeTest(th, g) ==
    IF g.autoRefractoryRequired
    THEN "if ((" \o th \o ") && !(oldSpike))"
    ELSE "if (" \o th \o ")"

\* backend.genEmitTrueSpike
genEmitTrueSpike == "glbSpk[spkIdx] = id;"

\* a reset block written whether or not there is reset code
resetBlockAlways(g) == <<"// spike reset code", nbApply(g.resetCode)>>

\* add after-spike reset if provided
resetBlock(g) ==
    IF g.resetCode # "" THEN <<"// spike reset code", nbApply(g.resetCode)>> ELSE <<>>

NbInit ==
    /\ neuronGroup \in NbGroups
    /\ thCode = ""
    /\ updateBody = <<>>
    /\ logw = 0
    /\ ip = 0
    /\ regs = <<>>
    /\ events = <<>>
    /\ pc = "read"
    /\ nbOthersIdle

\* copy neuron state into local variables; declare Isyn
NbRead ==
    /\ pc = "read"
    /\ updateBody' = <<"scalar lV = dd_Vn[id];">>
                \o (IF declaresIsyn(neuronGroup) THEN <<"scalar Isyn = 0;">> ELSE <<>>)
    /\ pc' = "inSyn"
    /\ UNCHANGED <<neuronGroup, thCode, logw, ip, regs, events, nbOthers>>

\* the loop over the merged incoming synapse groups
NbMergedInSyn ==
    /\ pc = "inSyn"
    /\ updateBody' = updateBody \o (IF neuronGroup.mergedInSyn > 0
                         THEN <<"scalar linSyn = dd_inSynn[id];", psCode>>
                         ELSE <<>>)
    /\ pc' = "currentSources"
    /\ UNCHANGED <<neuronGroup, thCode, logw, ip, regs, events, nbOthers>>

\* the loop over the current sources of the group
NbCurrentSources ==
    /\ pc = "currentSources"
    /\ updateBody' = updateBody \o (IF neuronGroup.currentSources > 0 THEN <<iCodeApplied>> ELSE <<>>)
    /\ pc' = "threshold"
    /\ UNCHANGED <<neuronGroup, thCode, logw, ip, regs, events, nbOthers>>

\* no threshold condition: a warning is logged
NbNoThreshold ==
    /\ pc = "threshold"
    /\ neuronGroup.thresholdConditionCode = ""
    /\ logw' = logw + 1
    /\ pc' = "simCode"
    /\ UNCHANGED <<neuronGroup, thCode, updateBody, ip, regs, events, nbOthers>>

\* the threshold condition is substituted; with auto-refractory its value
\* before the update is kept in oldSpike
NbThreshold ==
    /\ pc = "threshold"
    /\ neuronGroup.thresholdConditionCode # ""
    /\ thCode' = nbApply(neuronGroup.thresholdConditionCode)
    /\ updateBody' = updateBody \o (IF neuronGroup.autoRefractoryRequired
                         THEN <<"const bool oldSpike= (" \o thCode' \o ");">>
                         ELSE <<>>)
    /\ pc' = "simCode"
    /\ UNCHANGED <<neuronGroup, logw, ip, regs, events, nbOthers>>

\* os << sCode
NbSimCode ==
    /\ pc = "simCode"
    /\ updateBody' = Append(updateBody, nbApply(neuronGroup.simCode))
    /\ pc' = "trueSpike"
    /\ UNCHANGED <<neuronGroup, thCode, logw, ip, regs, events, nbOthers>>

\* test for true spikes if a condition is provided
NbTrueSpike ==
    /\ pc = "trueSpike"
    /\ updateBody' = updateBody \o (IF thCode # ""
                         THEN <<trueSpikeTest(thCode, neuronGroup), "{", genEmitTrueSpike>>
                                  \o resetBlock(neuronGroup) \o <<"}">>
                         ELSE <<>>)
    /\ pc' = "writeBack"
    /\ UNCHANGED <<neuronGroup, thCode, logw, ip, regs, events, nbOthers>>

\* store the neuron state and the input of the merged synapse groups
NbWriteBack ==
    /\ pc = "writeBack"
    /\ updateBody' = updateBody \o <<"dd_Vn[id] = lV;">>
                     \o (IF neuronGroup.mergedInSyn > 0 THEN <<"dd_inSynn[id] = linSyn;">> ELSE <<>>)
    /\ pc' = "generated"
    /\ UNCHANGED <<neuronGroup, thCode, logw, ip, regs, events, nbOthers>>

\* statement k of ss uses the variable Isyn without declaring it
usesIsyn(ss, k) == find(ss[k], "Isyn") # npos /\ find(ss[k], "scalar Isyn") = npos

\* a statement before statement k of ss declares Isyn
isynDeclaredBefore(ss, k) == \E d \in 1..(k - 1) : find(ss[d], "scalar Isyn") = 0

\* the body compiles: Isyn is declared before it is used
compiles(ss) == \A k \in 1..Len(ss) : usesIsyn(ss, k) => isynDeclaredBefore(ss, k)

\* the compiler rejects the kernel
NbCompileError ==
    /\ pc = "generated"
    /\ ~compiles(updateBody)
    /\ pc' = "compile error"
    /\ UNCHANGED <<nbVars, nbOthers>>

\* a work-item starts to run the body on a neuron with membrane value v
NbLaunch(v) ==
    /\ pc = "generated"
    /\ compiles(updateBody)
    /\ regs' = [dd_V |-> v, lV |-> 0, Isyn |-> 0, linSyn |-> 0, oldSpike |-> FALSE]
    /\ ip' = 1
    /\ events' = <<>>
    /\ pc' = "running"
    /\ UNCHANGED <<neuronGroup, thCode, updateBody, logw, nbOthers>>

\* the value of the substituted threshold condition
evalThreshold(r) == r.lV >= 2

\* the statement after the block that opens at statement k
afterBlock(ss, k) == (CHOOSE e \in k..Len(ss) : ss[e] = "}" /\ \A d \in k..(e - 1) : ss[d] # "}") + 1

\* what statement st does to the local variables r
NbEffect(st, r) ==
    CASE st = "scalar lV = dd_Vn[id];" -> [r EXCEPT !.lV = r.dd_V]
      [] st = "scalar Isyn = 0;" -> [r EXCEPT !.Isyn = 0]
      [] st = "scalar linSyn = dd_inSynn[id];" -> [r EXCEPT !.linSyn = 1]
      [] st = "Isyn += linSyn;" -> [r EXCEPT !.Isyn = r.Isyn + r.linSyn]
      [] st = "Isyn += 1;" -> [r EXCEPT !.Isyn = r.Isyn + 1]
      [] st = "const bool oldSpike= (lV >= 2);" -> [r EXCEPT !.oldSpike = evalThreshold(r)]
      [] st = "lV += 1;" -> [r EXCEPT !.lV = r.lV + 1]
      [] st = "lV += Isyn;" -> [r EXCEPT !.lV = r.lV + r.Isyn]
      [] st = "lV = 0;" -> [r EXCEPT !.lV = 0]
      [] st = "dd_Vn[id] = lV;" -> [r EXCEPT !.dd_V = r.lV]
      [] OTHER -> r

\* the event a statement is noted as
NbEvent(st) ==
    CASE st = "const bool oldSpike= (lV >= 2);" -> "oldSpike"
      [] st \in {"", "lV += 1;", "lV += Isyn;"} -> "simCode"
      [] st = genEmitTrueSpike -> "trueSpike"
      [] st = "lV = 0;" -> "resetCode"
      [] st = "dd_Vn[id] = lV;" -> "writeBack"
      [] OTHER -> "-"

\* the condition of an if statement holds
NbTaken(st, r) ==
    CASE st = "if ((lV >= 2) && !(oldSpike))" -> evalThreshold(r) /\ ~r.oldSpike
      [] st = "if (lV >= 2)" -> evalThreshold(r)
      [] OTHER -> TRUE

\* the work-item runs the next statement of the body
NbStep ==
    /\ pc = "running"
    /\ ip <= Len(updateBody)
    /\ regs' = NbEffect(updateBody[ip], regs)
    /\ events' = IF NbEvent(updateBody[ip]) = "-" THEN events
                 ELSE Append(events, [ev |-> NbEvent(updateBody[ip]), lV |-> regs'.lV])
    /\ ip' = IF NbTaken(updateBody[ip], regs) THEN ip + 1 ELSE afterBlock(updateBody, ip)
    /\ UNCHANGED <<pc, neuronGroup, thCode, updateBody, logw, nbOthers>>

\* the work-item has run the body
NbFinish ==
    /\ pc = "running"
    /\ ip > Len(updateBody)
    /\ pc' = "ran"
    /\ UNCHANGED <<nbVars, nbOthers>>

NbNext ==
    \/ NbRead \/ NbMergedInSyn \/ NbCurrentSources \/ NbNoThreshold \/ NbThreshold
    \/ NbSimCode \/ NbTrueSpike \/ NbWriteBack \/ NbCompileError
    \/ \E v \in 0..MaxV : NbLaunch(v)
    \/ NbStep \/ NbFinish

SpecNeuronBody == NbInit /\ [][NbNext]_vars

\* the body has been written
nbGenerated == pc \in {"generated", "compile error", "running", "ran"}

\* a statement of the body is one of ss
writes(ss) == \E k \in 1..Len(updateBody) : updateBody[k] \in ss

\* the lines that open a true spike branch
nbSpikeTests == {"if ((lV >= 2) && !(oldSpike))", "if (lV >= 2)"}

\* the statements between the emission of the true spike and the end of
\* its branch
afterEmission ==
    LET e == CHOOSE k \in 1..Len(updateBody) : updateBody[k] = genEmitTrueSpike
    IN  SubSeq(updateBody, e + 1, afterBlock(updateBody, e) - 2)

\* C21: a neuron model with empty threshold condition code is generated
\* without error (a warning is logged) and its body holds no true spike
\* test, no spike emission and no reset code; with a threshold condition
\* and empty reset code the body holds the spike test and the emission,
\* and the branch ends right after the emission, without a reset block.
C21_EmptyThresholdOrReset ==
    nbGenerated =>
        /\ neuronGroup.thresholdConditionCode = "" =>
              /\ logw = 1
              /\ ~writes(nbSpikeTests)
              /\ ~writes({genEmitTrueSpike})
              /\ ~writes({"// spike reset code", "lV = 0;"})
        /\ (neuronGroup.thresholdConditionCode # "" /\ neuronGroup.resetCode = "") =>
              /\ logw = 0
              /\ writes(nbSpikeTests)
              /\ writes({genEmitTrueSpike})
              /\ afterEmission = <<>>

\* a model with reset code but without threshold condition was generated
C21_Witness ==
    /\ pc = "generated"
    /\ neuronGroup.thresholdConditionCode = ""
    /\ neuronGroup.resetCode # ""
    /\ updateBody[Len(updateBody)] \in {"dd_Vn[id] = lV;", "dd_inSynn[id] = linSyn;"}

\* a model with threshold condition and without reset code was generated
C21_WitnessNoReset ==
    /\ pc = "generated"
    /\ neuronGroup.thresholdConditionCode # ""
    /\ neuronGroup.resetCode = ""
    /\ writes({genEmitTrueSpike})

\* the work-item did ev
did(ev) == \E k \in 1..Len(events) : events[k].ev = ev

\* when it did ev, and the value of lV right after
whenDid(ev) == CHOOSE k \in 1..Len(events) : events[k].ev = ev
lVAfter(ev) == events[whenDid(ev)].lV

\* C24: with auto-refractory the threshold condition is evaluated before
\* the sim code and kept in oldSpike, and a true spike is emitted exactly
\* when the condition holds after the sim code and oldSpike is false;
\* without auto-refractory exactly when the condition holds after the sim
\* code.  The reset code runs after the emission and before the state is
\* written back.
C24_AutoRefractoryOrder ==
    (pc = "ran" /\ neuronGroup.thresholdConditionCode # "") =>
        /\ did("simCode") /\ did("writeBack")
        /\ whenDid("writeBack") = Len(events)
        /\ neuronGroup.autoRefractoryRequired =>
              /\ did("oldSpike")
              /\ whenDid("oldSpike") < whenDid("simCode")
              /\ did("trueSpike") <=>
                    (lVAfter("simCode") >= 2 /\ ~(lVAfter("oldSpike") >= 2))
        /\ ~neuronGroup.autoRefractoryRequired =>
              /\ ~did("oldSpike")
              /\ did("trueSpike") <=> lVAfter("simCode") >= 2
        /\ did("trueSpike") => whenDid("simCode") < whenDid("trueSpike")
        /\ did("resetCode") <=> (did("trueSpike") /\ neuronGroup.resetCode # "")
        /\ did("resetCode") =>
              /\ whenDid("trueSpike") < whenDid("resetCode")
              /\ whenDid("resetCode") < whenDid("writeBack")

\* the condition held before and after the sim code: no spike
C24_Witness ==
    /\ pc = "ran"
    /\ neuronGroup.autoRefractoryRequired
    /\ neuronGroup.thresholdConditionCode # ""
    /\ lVAfter("oldSpike") >= 2
    /\ lVAfter("simCode") >= 2
    /\ ~did("trueSpike")

\* the condition came to hold in the sim code: spike, then reset
C24_WitnessSpike ==
    /\ pc = "ran"
    /\ neuronGroup.autoRefractoryRequired
    /\ did("trueSpike")
    /\ did("resetCode")
    /\ regs.dd_V = 0

\* C28: whenever the body uses Isyn (the apply-input code of a merged
\* synapse group, the sim code or the injection code of a current source)
\* a declaration of Isyn was written before, also for a group with
\* current sources and no incoming synapse groups, whatever its sim code.
C28_IsynDeclaredBeforeUse ==
    \A k \in 1..Len(updateBody) :
        usesIsyn(updateBody, k) => isynDeclaredBefore(updateBody, k)

\* the same for the groups without current sources
C28_DeclaredWithoutCurrentSources ==
    neuronGroup.currentSources = 0 =>
        \A k \in 1..Len(updateBody) :
            usesIsyn(updateBody, k) => isynDeclaredBefore(updateBody, k)

-----------------------------------------------------------------------------
(* generateInit: the initialisation written for a local neuron group, run   *)
(* by the work-items of the group.  A buffer of the model has room for      *)
(* every delay slot of the group; an element no statement has written       *)
(* holds "?", one that was zeroed holds "0".                                *)

\* most delay slots and most neurons of the group
MaxDelaySlots == 3
MaxNeurons == 2

IniGroups ==
    [numDelaySlots : 1..MaxDelaySlots, numNeurons : 1..MaxNeurons,
     trueSpikeRequired : BOOLEAN, spikeEventRequired : BOOLEAN,
     spikeTimeRequired : BOOLEAN]

\* NeuronGroup::isDelayRequired of the group g
groupIsDelayRequired(g) == g.numDelaySlots > 1

\* const bool initRequired = spikeEvent ? ng.isSpikeEventRequired() : true
initRequired(g, spikeEvent) == IF spikeEvent THEN g.spikeEventRequired ELSE TRUE

\* an initialisation that never loops over the delay slots
delayRequiredNever(g, spikeEvent) == FALSE

\* const bool delayRequired of genInitSpikeCount and genInitSpikes
delayRequired(g, spikeEvent) ==
    IF spikeEvent THEN groupIsDelayRequired(g)
    ELSE g.trueSpikeRequired /\ groupIsDelayRequired(g)

\* genInitSpikeCount: the elements of the count the first work-item zeroes
genInitSpikeCount(g, spikeEvent) ==
    IF ~initRequired(g, spikeEvent) THEN {}
    ELSE IF delayRequired(g, spikeEvent) THEN 0..(g.numDelaySlots - 1)
    ELSE {0}

\* genInitSpikes: the elements of the buffer work-item id zeroes
genInitSpikes(g, spikeEvent, id) ==
    IF ~initRequired(g, spikeEvent) THEN {}
    ELSE IF delayRequired(g, spikeEvent)
         THEN {(d * g.numNeurons) + id : d \in 0..(g.numDelaySlots - 1)}
         ELSE {id}

\* the elements of sT work-item id sets to -TIME_MAX
genInitSpikeTimes(g, id) ==
    IF ~g.spikeTimeRequired THEN {}
    ELSE IF groupIsDelayRequired(g)
         THEN {(d * g.numNeurons) + id : d \in 0..(g.numDelaySlots - 1)}
         ELSE {id}

\* array a with the elements of set written with v
written(a, set, v) == [k \in DOMAIN a |-> IF k \in set THEN v ELSE a[k]]

IniInit ==
    /\ initGroup \in IniGroups
    /\ glbSpkCnt = [d \in 0..(initGroup.numDelaySlots - 1) |-> "?"]
    /\ glbSpkCntEvnt = [d \in 0..(initGroup.numDelaySlots - 1) |-> "?"]
    /\ glbSpk = [k \in 0..(initGroup.numDelaySlots * initGroup.numNeurons - 1) |-> "?"]
    /\ glbSpkEvnt = [k \in 0..(initGroup.numDelaySlots * initGroup.numNeurons - 1) |-> "?"]
    /\ sT = [k \in 0..(initGroup.numDelaySlots * initGroup.numNeurons - 1) |-> "?"]
    /\ initPending = 0..(initGroup.numNeurons - 1)
    /\ pc = "init kernel"
    /\ iniOthersIdle

\* work-item id runs the initialisation of the group
IniWorkItem(id) ==
    /\ pc = "init kernel"
    /\ id \in initPending
    /\ glbSpkCnt' = IF id = 0 THEN written(glbSpkCnt, genInitSpikeCount(initGroup, FALSE), "0")
                    ELSE glbSpkCnt
    /\ glbSpkCntEvnt' = IF id = 0
                        THEN written(glbSpkCntEvnt, genInitSpikeCount(initGroup, TRUE), "0")
                        ELSE glbSpkCntEvnt
    /\ glbSpk' = written(glbSpk, genInitSpikes(initGroup, FALSE, id), "0")
    /\ glbSpkEvnt' = written(glbSpkEvnt, genInitSpikes(initGroup, TRUE, id), "0")
    /\ sT' = written(sT, genInitSpikeTimes(initGroup, id), "-TIME_MAX")
    /\ initPending' = initPending \ {id}
    /\ pc' = IF initPending' = {} THEN "initialised" ELSE pc
    /\ UNCHANGED <<initGroup, iniOthers>>

IniNext == \E id \in initPending : IniWorkItem(id)

SpecInit == IniInit /\ [][IniNext]_vars

\* the elements of a buffer that belong to the slots of set slots
slotElements(slots) ==
    {(d * initGroup.numNeurons) + id : d \in slots, id \in 0..(initGroup.numNeurons - 1)}

\* every delay slot of a delayed group, the single slot otherwise
allSlots ==
    IF groupIsDelayRequired(initGroup) THEN 0..(initGroup.numDelaySlots - 1) ELSE {0}

\* the slots the true spikes of the group use: every slot when the group
\* is delayed and true spikes are required, the single slot otherwise
trueSpikeSlots ==
    IF groupIsDelayRequired(initGroup) /\ initGroup.trueSpikeRequired
    THEN 0..(initGroup.numDelaySlots - 1) ELSE {0}

\* the spike times are -TIME_MAX in every slot when they are required
spikeTimesSet ==
    initGroup.spikeTimeRequired =>
        \A k \in slotElements(0..(initGroup.numDelaySlots - 1)) : sT[k] = "-TIME_MAX"

====
